---- MODULE Spec2Model ----
(***************************************************************************)
(* A model of the bazuka chain engine (src/src/blockchain/mod.rs) over its *)
(* key-value store (src/src/db/mod.rs, src/src/db/ram.rs).                 *)
(*                                                                         *)
(* The persisted store is the variable db, a map from keys to values.      *)
(* Every chain operation is an operator over a "database" value (a         *)
(* RamKvStore or a RamMirrorKvStore stacked on another database), written  *)
(* statement by statement after the Rust code, and returns the error it    *)
(* ended with and the database as the call left it.                        *)
(***************************************************************************)
EXTENDS Integers, Sequences, FiniteSets, TLC

VARIABLES db, ret

vars == <<db, ret>>

(***************************************************************************)
(* Bounds of the model.                                                    *)
(***************************************************************************)
\* The chain is not grown beyond this height.
MaxHeight == 3
\* The longest list of blocks or headers handed to extend / will_extend.
MaxExtend == 2
\* The largest timestamp a candidate header carries.
MaxTimestamp == 1

(***************************************************************************)
(* Configuration constants (crate::config).  The revision of config that   *)
(* sets them is not among the sources; the values are scaled down so that  *)
(* a retarget, a key rotation and a reward all happen within MaxHeight.    *)
(***************************************************************************)
TOTAL_SUPPLY == 12
REWARD_RATIO == 4
BLOCK_TIME == 1
DIFFICULTY_CALC_INTERVAL == 2
MEDIAN_TIMESTAMP_COUNT == 2
POW_KEY_CHANGE_DELAY == 2
POW_KEY_CHANGE_INTERVAL == 2
MAX_DELTA_SIZE == 3
NUM_STATE_DELTAS_KEEP == 5
POW_BASE_KEY == <<"BAZUKA BASE KEY">>
\* Work is 2^256 / (target + 1) in the engine; WorkScale stands for 2^256.
WorkScale == 60
GenesisTarget == 4

\* The modulus of u64 / usize arithmetic: 2^64 in the engine, 2^30 here (every
\* other number of the model is far below it).
U64 == 1073741824

(***************************************************************************)
(* Option<T>, and sequence helpers.                                        *)
(***************************************************************************)
None == <<>>
Some(v) == <<v>>
IsSome(o) == o # <<>>
Unwrap(o) == o[1]

EmptyMap == <<>>

RECURSIVE SetToSeq(_)
\* One enumeration of a finite set (HashMap iteration order: unspecified;
\* the keys of a map are distinct, so the order changes no result below).
SetToSeq(S) ==
    IF S = {} THEN <<>>
    ELSE LET e == CHOOSE e \in S : TRUE IN <<e>> \o SetToSeq(S \ {e})

RECURSIVE SumSeq(_)
SumSeq(s) == IF s = <<>> THEN 0 ELSE Head(s) + SumSeq(Tail(s))

\* A local `let`: Let([x \in {e} |-> body]) is body with x the value of e,
\* computed once, where the code computes it.
Let(f) == f[CHOOSE x \in DOMAIN f : TRUE]

(***************************************************************************)
(* Addresses (core::Address): Treasury, or a public key.                   *)
(***************************************************************************)
Treasury == "Treasury"
Alice == "Alice"
Bob == "Bob"
Miner == "Miner"

(***************************************************************************)
(* Keys: format!("header_{:010}", i) is the pair <<"header", i>>, and so   *)
(* on; two keys are equal iff their strings are.                           *)
(***************************************************************************)
HeightKey == <<"height">>
OutdatedKey == <<"outdated">>
BlockKey(i) == <<"block", i>>
\* A header key that keeps one digit of the index.
HeaderKeyOneBit(i) == <<"header", i % 2>>
HeaderKey(i) == <<"header", i>>
MerkleKey(i) == <<"merkle", i>>
RollbackKey(i) == <<"rollback", i>>
PowerKey(i) == <<"power", i>>
ContractUpdatesKey(i) == <<"contract_updates", i>>
AccountKey(addr) == <<"account", addr>>
ContractKey(cid) == <<"contract", cid>>
ContractAccountKey(cid) == <<"contract_account", cid>>
ContractStateKey(cid) == <<"contract_state", cid>>
ContractCompressedStateKey(cid, h) == <<"contract_compressed_state", cid, h>>

(***************************************************************************)
(* db::WriteOp and the KvStore implementations.                            *)
(***************************************************************************)
Put(k, v) == [op |-> "Put", k |-> k, v |-> v]
Remove(k) == [op |-> "Remove", k |-> k]

\* db::RamKvStore: a HashMap.
RamKvStore(m) == [kind |-> "ram", data |-> m]
\* db::RamMirrorKvStore::new: a borrowed store and an empty overwrite map
\* (key -> Option<Blob>).
RamMirrorKvStore(store) == [kind |-> "mirror", store |-> store, overwrite |-> EmptyMap]

MapRemove(m, k) == [x \in DOMAIN m \ {k} |-> m[x]]
MapInsert(m, k, v) == (k :> v) @@ m

RECURSIVE KvGet(_, _)
\* KvStore::get of RamKvStore and of RamMirrorKvStore.
KvGet(d, k) ==
    IF d.kind = "ram"
    THEN IF k \in DOMAIN d.data THEN Some(d.data[k]) ELSE None
    ELSE IF k \in DOMAIN d.overwrite THEN d.overwrite[k] ELSE KvGet(d.store, k)

\* One WriteOp of KvStore::update.
KvUpdateOne(d, o) ==
    IF d.kind = "ram"
    THEN IF o.op = "Put"
         THEN [d EXCEPT !.data = MapInsert(d.data, o.k, o.v)]
         ELSE [d EXCEPT !.data = MapRemove(d.data, o.k)]
    ELSE IF o.op = "Put"
         THEN [d EXCEPT !.overwrite = MapInsert(d.overwrite, o.k, Some(o.v))]
         ELSE [d EXCEPT !.overwrite = MapInsert(d.overwrite, o.k, None)]

RECURSIVE KvUpdate(_, _)
\* KvStore::update: the ops in order.
KvUpdate(d, ops) ==
    IF ops = <<>> THEN d ELSE KvUpdate(KvUpdateOne(d, Head(ops)), Tail(ops))

RECURSIVE RollbackOfForgetful(_, _)
\* A rollback_of that never looks the old value up.
RollbackOfForgetful(d, ops) ==
    IF ops = <<>> THEN <<>>
    ELSE <<Remove(Head(ops).k)>> \o RollbackOfForgetful(d, Tail(ops))

RECURSIVE RollbackOfRunning(_, _)
\* A rollback_of that reads each old value from the store as the earlier
\* ops of the batch would have left it.
RollbackOfRunning(d, ops) ==
    IF ops = <<>> THEN <<>>
    ELSE LET k == Head(ops).k
             old == KvGet(d, k)
         IN <<IF IsSome(old) THEN Put(k, Unwrap(old)) ELSE Remove(k)>>
            \o RollbackOfRunning(KvUpdateOne(d, Head(ops)), Tail(ops))

RECURSIVE RollbackOf(_, _)
\* KvStore::rollback_of: for each op, Put(k, old) if k is present, else Remove(k).
RollbackOf(d, ops) ==
    IF ops = <<>> THEN <<>>
    ELSE LET k == Head(ops).k
             old == KvGet(d, k)
         IN <<IF IsSome(old) THEN Put(k, Unwrap(old)) ELSE Remove(k)>>
            \o RollbackOf(d, Tail(ops))

\* A to_ops that hands on the writes of values and drops the removals.
ToOpsWithoutRemoves(d) ==
    LET ks == SetToSeq({k \in DOMAIN d.overwrite : IsSome(d.overwrite[k])})
    IN [i \in 1..Len(ks) |-> Put(ks[i], Unwrap(d.overwrite[ks[i]]))]

\* RamMirrorKvStore::to_ops: the overwrite map as WriteOps.
ToOps(d) ==
    LET ks == SetToSeq(DOMAIN d.overwrite)
    IN [i \in 1..Len(ks) |->
            IF IsSome(d.overwrite[ks[i]])
            THEN Put(ks[i], Unwrap(d.overwrite[ks[i]]))
            ELSE Remove(ks[i])]

(***************************************************************************)
(* Results: Result<T, BlockchainError>.  "Panic" is a Rust panic (an       *)
(* overflow check, an out-of-range index, unimplemented!()).               *)
(***************************************************************************)
Ok(v) == [err |-> "Ok", val |-> v]
Err(e) == [err |-> e]
IsOk(r) == r.err = "Ok"

(***************************************************************************)
(* Primitives the engine consumes.  Their code (core/header.rs, utils,     *)
(* crypto) is not among the sources; they are modelled after the           *)
(* specification's contracts for them.                                     *)
(***************************************************************************)
\* Hasher::hash over the canonical encoding: deterministic and injective.
HashOf(x) == <<"H", x>>
\* Default::default() of a hash.
DefaultHash == <<"H0">>
\* Block::merkle_tree and MerkleTree::root over the body.
MerkleTree(body) == [leaves |-> body]
MerkleRoot(tree) == <<"M", tree.leaves>>
\* Header::hash.
HeaderHash(h) == HashOf(h)
\* Header::power: the work of one header, 2^256 / (target + 1).
HeaderPower(h) == WorkScale \div (h.proof_of_work.target + 1)
\* Header::meets_target(key): the PoW hash of the header under the key is
\* below the target.  A nonce is the key it was mined under (<<key>>), or
\* <<>> for the nonce 0 of a draft that was never mined.
MeetsTarget(h, key) == h.proof_of_work.nonce = <<key>>

RECURSIVE SortValues(_)
SortValues(s) ==
    IF s = <<>> THEN <<>>
    ELSE LET i == CHOOSE i \in 1..Len(s) : \A j \in 1..Len(s) : s[i] <= s[j]
         IN <<s[i]>> \o SortValues(SubSeq(s, 1, i - 1) \o SubSeq(s, i + 1, Len(s)))
\* utils::median: the element at len / 2 of the sorted values.
Median(s) == SortValues(s)[(Len(s) \div 2) + 1]

\* utils::calc_pow_difficulty(last_pow, prev_pow): the target of the next
\* window, scaled by clamp(BLOCK_TIME / avg_block_time, 0.5, 2.0).
CalcPowDifficulty(last_pow, prev_pow) ==
    LET time_delta == IF last_pow.timestamp >= prev_pow.timestamp
                      THEN last_pow.timestamp - prev_pow.timestamp
                      ELSE 0
        avg == time_delta \div (DIFFICULTY_CALC_INTERVAL - 1)
    IN IF 2 * avg <= BLOCK_TIME THEN last_pow.target \div 2
       ELSE IF avg >= 2 * BLOCK_TIME THEN last_pow.target * 2
       ELSE (last_pow.target * avg) \div BLOCK_TIME

(***************************************************************************)
(* Zero-knowledge state (crate::zk).  check_proof is in the sources; the   *)
(* revision of ZkState the engine calls (height, push_delta, rollback,     *)
(* compress with a height) is not, and is modelled after the               *)
(* specification: a full state is a set of occupied cells with the         *)
(* inverse deltas of its last NUM_STATE_DELTAS_KEEP updates.               *)
(***************************************************************************)
Cells == {1, 2}
StateModel == "model"
ZkStateNew(height, data) == [height |-> height, data |-> data, rollbacks |-> <<>>]
\* ZkState::default()
ZkStateDefault == ZkStateNew(0, {})
\* ZkStateDelta: cells to set and cells to clear.
ZkDelta(add, del) == [add |-> add, del |-> del]
\* ZkState::compress(model): the commitment with the state's height and size.
Compress(state, model) ==
    [height |-> state.height, state_hash |-> <<"root", state.data>>,
     state_size |-> Cardinality(state.data)]
\* ZkCompressedState::default()
ZkCompressedStateDefault == [height |-> 0, state_hash |-> <<"root", {}>>, state_size |-> 0]
ApplyDelta(data, delta) == (data \ delta.del) \cup delta.add
\* ZkState::push_delta: apply the delta, keep its inverse, raise the height.
PushDelta(state, delta) ==
    LET touched == delta.add \cup delta.del
        inverse == ZkDelta(state.data \cap touched, touched \ state.data)
        kept == Append(state.rollbacks, inverse)
    IN [height |-> state.height + 1,
        data |-> ApplyDelta(state.data, delta),
        rollbacks |-> IF Len(kept) > NUM_STATE_DELTAS_KEEP THEN Tail(kept) ELSE kept]
\* ZkState::rollback: undo the last delta, or fail when none is kept.
ZkRollback(state) ==
    IF state.rollbacks = <<>> THEN Err("DeltaNotFound")
    ELSE Ok([height |-> state.height - 1,
             data |-> ApplyDelta(state.data, state.rollbacks[Len(state.rollbacks)]),
             rollbacks |-> SubSeq(state.rollbacks, 1, Len(state.rollbacks) - 1)])
\* ZkStateDelta::size
DeltaSize(delta) == Cardinality(delta.add) - Cardinality(delta.del)

\* zk::check_proof.  A Groth16 proof is checked by the opaque verifier
\* (its verdict is the proof's field ok); Dummy is the verdict it carries;
\* any other key reaches unimplemented!().
CheckProof(vk, prev_state, aux_data, next_state, proof) ==
    IF vk = "Groth16" THEN (IF proof.kind = "Groth16" THEN Ok(proof.ok) ELSE Ok(FALSE))
    ELSE IF vk = "Dummy" THEN (IF proof.kind = "Dummy" THEN Ok(proof.ok) ELSE Ok(FALSE))
    ELSE Err("Panic")

(***************************************************************************)
(* Transactions (core::Transaction).                                       *)
(***************************************************************************)
Unsigned == [kind |-> "Unsigned"]
\* A signature made with the key of `by` over the bytes `over`.
Signed(by, over) == [kind |-> "Signed", by |-> by, over |-> over]
RegularSend(dst, amount) == [type |-> "RegularSend", dst |-> dst, amount |-> amount]
CreateContract(contract) == [type |-> "CreateContract", contract |-> contract]
Update(cid, function_id, next_state, proof) ==
    [type |-> "Update", contract_id |-> cid, function_id |-> function_id,
     next_state |-> next_state, proof |-> proof]
DepositWithdraw(cid, next_state, proof) ==
    [type |-> "DepositWithdraw", contract_id |-> cid, next_state |-> next_state,
     proof |-> proof]
Tx(src, nonce, data, fee, sig) ==
    [src |-> src, nonce |-> nonce, data |-> data, fee |-> fee, sig |-> sig]
\* The bytes a signature covers: the transaction with sig = Unsigned.
SigningBytes(tx) == [tx EXCEPT !.sig = Unsigned]
\* Wallet::create_transaction and the like: sign with the wallet's own key.
SignedTx(src, nonce, data, fee) ==
    LET t == Tx(src, nonce, data, fee, Unsigned) IN [t EXCEPT !.sig = Signed(src, t)]
\* Transaction::verify_signature
VerifySignature(tx) ==
    IF tx.src = Treasury THEN TRUE
    ELSE IF tx.sig.kind = "Unsigned" THEN FALSE
    ELSE tx.sig.by = tx.src /\ tx.sig.over = SigningBytes(tx)
\* ContractId::new(tx): the hash of the creating transaction.
ContractIdNew(tx) == [hash |-> HashOf(tx)]
\* Transaction::size: the encoded size, one unit per transaction here.
TxSize(tx) == 1

(***************************************************************************)
(* KvStoreChain: the read accessors.  Values are stored as the values      *)
(* themselves; bincode's serialize / deserialize of a value of the type    *)
(* the key is always written with is lossless, and no key is ever written  *)
(* with two types.                                                         *)
(***************************************************************************)
Account(balance, nonce) == [balance |-> balance, nonce |-> nonce]
ContractAccount(height, compressed_state, balance) ==
    [height |-> height, compressed_state |-> compressed_state, balance |-> balance]
ZkContract(initial_state, state_model, deposit_withdraw, update) ==
    [initial_state |-> initial_state, state_model |-> state_model,
     deposit_withdraw |-> deposit_withdraw, update |-> update]
ZkCompressedStateChange(prev_state, state) == [prev_state |-> prev_state, state |-> state]

\* get_height
GetHeight(d) ==
    LET b == KvGet(d, HeightKey) IN IF IsSome(b) THEN Unwrap(b) ELSE 0

\* get_header
GetHeader(d, index) ==
    IF index >= GetHeight(d) THEN Err("BlockNotFound")
    ELSE LET b == KvGet(d, HeaderKey(index))
         IN IF IsSome(b) THEN Ok(Unwrap(b)) ELSE Err("Inconsistency")

\* get_block
GetBlock(d, index) ==
    IF index >= GetHeight(d) THEN Err("BlockNotFound")
    ELSE LET b == KvGet(d, BlockKey(index))
         IN IF IsSome(b) THEN Ok(Unwrap(b)) ELSE Err("Inconsistency")

\* get_headers that runs up to `until` whatever the height.
GetHeadersPastHeight(d, since, until) ==
    LET height == GetHeight(d)
        end == IF IsSome(until) THEN Unwrap(until) ELSE height
        count == IF end > since THEN end - since ELSE 0
        got == [j \in 1..count |-> GetHeader(d, since + j - 1)]
        failed == {j \in 1..count : ~IsOk(got[j])}
    IN IF failed # {} THEN got[CHOOSE j \in failed : \A o \in failed : j <= o]
       ELSE Ok([j \in 1..count |-> got[j].val])

\* get_headers(since, until): the loop over since..until (or the height)
\* that stops at the height; the first error ends it.
GetHeaders(d, since, until) ==
    LET height == GetHeight(d)
        end == IF IsSome(until) THEN Unwrap(until) ELSE height
        stop == IF end < height THEN end ELSE height
        count == IF stop > since THEN stop - since ELSE 0
        got == [j \in 1..count |-> GetHeader(d, since + j - 1)]
        failed == {j \in 1..count : ~IsOk(got[j])}
    IN IF failed # {} THEN got[CHOOSE j \in failed : \A o \in failed : j <= o]
       ELSE Ok([j \in 1..count |-> got[j].val])

\* get_blocks(since, until)
GetBlocks(d, since, until) ==
    LET height == GetHeight(d)
        end == IF IsSome(until) THEN Unwrap(until) ELSE height
        stop == IF end < height THEN end ELSE height
        count == IF stop > since THEN stop - since ELSE 0
        got == [j \in 1..count |-> GetBlock(d, since + j - 1)]
        failed == {j \in 1..count : ~IsOk(got[j])}
    IN IF failed # {} THEN got[CHOOSE j \in failed : \A o \in failed : j <= o]
       ELSE Ok([j \in 1..count |-> got[j].val])

\* get_outdated_states
GetOutdatedStates(d) ==
    LET b == KvGet(d, OutdatedKey) IN IF IsSome(b) THEN Unwrap(b) ELSE EmptyMap

\* get_contract
GetContract(d, cid) ==
    LET b == KvGet(d, ContractKey(cid))
    IN IF IsSome(b) THEN Ok(Unwrap(b)) ELSE Err("ContractNotFound")

\* get_contract_account
GetContractAccount(d, cid) ==
    LET b == KvGet(d, ContractAccountKey(cid))
    IN IF IsSome(b) THEN Ok(Unwrap(b)) ELSE Err("ContractNotFound")

\* get_state
GetState(d, cid) ==
    LET b == KvGet(d, ContractStateKey(cid))
    IN IF IsSome(b) THEN Unwrap(b) ELSE ZkStateDefault

\* get_account
GetAccount(d, addr) ==
    LET b == KvGet(d, AccountKey(addr))
    IN IF IsSome(b) THEN Unwrap(b)
       ELSE Account(IF addr = Treasury THEN TOTAL_SUPPLY ELSE 0, 0)

\* get_changed_states
GetChangedStates(d, index) ==
    LET b == KvGet(d, ContractUpdatesKey(index))
    IN IF IsSome(b) THEN Ok(Unwrap(b)) ELSE Err("Inconsistency")

\* get_compressed_state_at
GetCompressedStateAt(d, cid, index) ==
    Let([contract \in {GetContract(d, cid)} |->
      IF ~IsOk(contract) THEN contract
      ELSE Let([account \in {GetContractAccount(d, cid)} |->
        IF ~IsOk(account) THEN account
        ELSE IF index >= account.val.height THEN Err("CompressedStateNotFound")
        ELSE IF index = 0 THEN Ok(Compress(ZkStateDefault, contract.val.state_model))
        ELSE LET b == KvGet(d, ContractCompressedStateKey(cid, index))
             IN IF IsSome(b) THEN Ok(Unwrap(b)) ELSE Err("Inconsistency")])])

\* A get_power that reads the power of the genesis block.
GetPowerOfGenesis(d) ==
    IF GetHeight(d) = 0 THEN Ok(0)
    ELSE LET b == KvGet(d, PowerKey(0))
         IN IF IsSome(b) THEN Ok(Unwrap(b)) ELSE Err("Inconsistency")

\* get_power
GetPower(d) ==
    LET height == GetHeight(d)
    IN IF height = 0 THEN Ok(0)
       ELSE LET b == KvGet(d, PowerKey(height - 1))
            IN IF IsSome(b) THEN Ok(Unwrap(b)) ELSE Err("Inconsistency")

\* next_reward
NextReward(d) == GetAccount(d, Treasury).balance \div REWARD_RATIO

\* pow_key
\* pow_key that never rotates.
PowKeyBase(d, index) ==
    Ok(POW_BASE_KEY)

PowKey(d, index) ==
    IF index < POW_KEY_CHANGE_DELAY THEN Ok(POW_BASE_KEY)
    ELSE LET reference == ((index - POW_KEY_CHANGE_DELAY) \div POW_KEY_CHANGE_INTERVAL)
                              * POW_KEY_CHANGE_INTERVAL
         IN Let([h \in {GetHeader(d, reference)} |->
                   IF IsOk(h) THEN Ok(HeaderHash(h.val)) ELSE h])

\* median_timestamp
MedianTimestamp(d, index) ==
    LET n == IF index + 1 < MEDIAN_TIMESTAMP_COUNT THEN index + 1 ELSE MEDIAN_TIMESTAMP_COUNT
    IN Let([hs \in {[i \in 1..n |-> GetHeader(d, index - (i - 1))]} |->
         IF \E i \in 1..n : ~IsOk(hs[i])
         THEN hs[CHOOSE i \in 1..n : ~IsOk(hs[i]) /\ \A j \in 1..(i - 1) : IsOk(hs[j])]
         ELSE Ok(Median([i \in 1..n |-> hs[i].val.proof_of_work.timestamp]))])

\* next_difficulty (called at height >= 1)
\* next_difficulty that always carries the last target forward.
NextDifficultyCarried(d) ==
    Let([height \in {GetHeight(d)} |->
    Let([last_block \in {GetHeader(d, height - 1)} |->
      IF ~IsOk(last_block) THEN last_block
      ELSE Ok(last_block.val.proof_of_work.target)])])

NextDifficulty(d) ==
    Let([height \in {GetHeight(d)} |->
    Let([last_block \in {GetHeader(d, height - 1)} |->
      IF ~IsOk(last_block) THEN last_block
      ELSE IF height % DIFFICULTY_CALC_INTERVAL = 0
      THEN Let([prev_block \in {GetHeader(d, height - DIFFICULTY_CALC_INTERVAL)} |->
             IF ~IsOk(prev_block) THEN prev_block
             ELSE Ok(CalcPowDifficulty(last_block.val.proof_of_work,
                                       prev_block.val.proof_of_work))])
      ELSE Ok(last_block.val.proof_of_work.target)])])

(***************************************************************************)
(* apply_tx.  The result carries the error, the database as the call left  *)
(* it, and the TxSideEffect (None for Nothing, Some(change) for            *)
(* StateChange).                                                           *)
(***************************************************************************)
TxFail(d, e) == [err |-> e, db |-> d, side |-> None]
StateChange(cid, prev_state, state) ==
    Some([contract_id |-> cid, state_change |-> ZkCompressedStateChange(prev_state, state)])

\* The RegularSend arm, after the fee is taken and the nonce raised.
\* The RegularSend arm without the check of the balance.
ApplyRegularSendUnchecked(d, tx, acc_src) ==
    IF tx.data.dst # tx.src
    THEN LET src2 == [acc_src EXCEPT !.balance = @ - tx.data.amount]
             dst2 == [GetAccount(d, tx.data.dst) EXCEPT !.balance = @ + tx.data.amount]
         IN [err |-> "Ok",
             db |-> KvUpdate(d, <<Put(AccountKey(tx.data.dst), dst2),
                                  Put(AccountKey(tx.src), src2)>>),
             side |-> None]
    ELSE [err |-> "Ok", db |-> KvUpdate(d, <<Put(AccountKey(tx.src), acc_src)>>),
          side |-> None]

ApplyRegularSend(d, tx, acc_src) ==
    IF acc_src.balance < tx.data.amount THEN TxFail(d, "BalanceInsufficient")
    ELSE IF tx.data.dst # tx.src
    THEN LET src2 == [acc_src EXCEPT !.balance = @ - tx.data.amount]
             dst2 == [GetAccount(d, tx.data.dst) EXCEPT !.balance = @ + tx.data.amount]
         IN [err |-> "Ok",
             db |-> KvUpdate(d, <<Put(AccountKey(tx.data.dst), dst2),
                                  Put(AccountKey(tx.src), src2)>>),
             side |-> None]
    ELSE [err |-> "Ok", db |-> KvUpdate(d, <<Put(AccountKey(tx.src), acc_src)>>),
          side |-> None]

\* The CreateContract arm.
ApplyCreateContract(d, tx, acc_src) ==
    LET contract == tx.data.contract
        contract_id == ContractIdNew(tx)
    IN [err |-> "Ok",
        db |-> KvUpdate(d,
                 <<Put(ContractKey(contract_id), contract),
                   Put(ContractAccountKey(contract_id),
                       ContractAccount(1, contract.initial_state, 0)),
                   Put(ContractCompressedStateKey(contract_id, 1), contract.initial_state),
                   Put(AccountKey(tx.src), acc_src)>>),
        side |-> StateChange(contract_id,
                             Compress(ZkStateDefault, contract.state_model),
                             contract.initial_state)]

\* The DepositWithdraw and Update arms that leave the contract's height as
\* it was.
ApplyStateTransitionSameHeight(d, tx, acc_src, vk, prev_account) ==
    LET cid == tx.data.contract_id
        next_state == tx.data.next_state
    IN Let([ok \in {CheckProof(vk, prev_account.compressed_state, ZkCompressedStateDefault,
                               next_state, tx.data.proof)} |->
         IF ~IsOk(ok) THEN TxFail(d, ok.err)
         ELSE IF ~ok.val THEN TxFail(d, "IncorrectZkProof")
         ELSE [err |-> "Ok",
               db |-> KvUpdate(d,
                        <<Put(ContractAccountKey(cid),
                              ContractAccount(prev_account.height, next_state, 0)),
                          Put(ContractCompressedStateKey(cid, prev_account.height),
                              next_state),
                          Put(AccountKey(tx.src), acc_src)>>),
               side |-> StateChange(cid, prev_account.compressed_state, next_state)]])

\* The DepositWithdraw and Update arms, once the verifier key is chosen.
ApplyStateTransition(d, tx, acc_src, vk, prev_account) ==
    LET cid == tx.data.contract_id
        next_state == tx.data.next_state
    IN Let([ok \in {CheckProof(vk, prev_account.compressed_state, ZkCompressedStateDefault,
                               next_state, tx.data.proof)} |->
         IF ~IsOk(ok) THEN TxFail(d, ok.err)
         ELSE IF ~ok.val THEN TxFail(d, "IncorrectZkProof")
         ELSE [err |-> "Ok",
               db |-> KvUpdate(d,
                        <<Put(ContractAccountKey(cid),
                              ContractAccount(prev_account.height + 1, next_state, 0)),
                          Put(ContractCompressedStateKey(cid, prev_account.height + 1),
                              next_state),
                          Put(AccountKey(tx.src), acc_src)>>),
               side |-> StateChange(cid, prev_account.compressed_state, next_state)]])

\* The contract arms that take the first update function whatever
\* function_id says.
ApplyContractCallFirstFunction(d, tx, acc_src) ==
    Let([contract \in {GetContract(d, tx.data.contract_id)} |->
      IF ~IsOk(contract) THEN TxFail(d, contract.err)
      ELSE Let([prev_account \in {GetContractAccount(d, tx.data.contract_id)} |->
        IF ~IsOk(prev_account) THEN TxFail(d, prev_account.err)
        ELSE IF tx.data.type = "DepositWithdraw"
        THEN ApplyStateTransition(d, tx, acc_src, contract.val.deposit_withdraw,
                                  prev_account.val)
        ELSE ApplyStateTransition(d, tx, acc_src, contract.val.update[1],
                                  prev_account.val)])])

ApplyContractCall(d, tx, acc_src) ==
    Let([contract \in {GetContract(d, tx.data.contract_id)} |->
      IF ~IsOk(contract) THEN TxFail(d, contract.err)
      ELSE Let([prev_account \in {GetContractAccount(d, tx.data.contract_id)} |->
        IF ~IsOk(prev_account) THEN TxFail(d, prev_account.err)
        ELSE IF tx.data.type = "DepositWithdraw"
        THEN ApplyStateTransition(d, tx, acc_src, contract.val.deposit_withdraw,
                                  prev_account.val)
        ELSE IF tx.data.function_id + 1 > Len(contract.val.update)
        THEN TxFail(d, "ContractFunctionNotFound")
        ELSE ApplyStateTransition(d, tx, acc_src,
                                  contract.val.update[tx.data.function_id + 1],
                                  prev_account.val)])])

\* apply_tx without the check of allow_treasury.
ApplyTxOpenTreasury(d, tx, allow_treasury) ==
    Let([acc_src \in {GetAccount(d, tx.src)} |->
      IF ~VerifySignature(tx) THEN TxFail(d, "SignatureError")
      ELSE IF tx.nonce # acc_src.nonce + 1 THEN TxFail(d, "InvalidTransactionNonce")
      ELSE IF acc_src.balance < tx.fee THEN TxFail(d, "BalanceInsufficient")
      ELSE LET acc2 == Account(acc_src.balance - tx.fee, acc_src.nonce + 1)
           IN IF tx.data.type = "RegularSend" THEN ApplyRegularSend(d, tx, acc2)
              ELSE IF tx.data.type = "CreateContract" THEN ApplyCreateContract(d, tx, acc2)
              ELSE ApplyContractCall(d, tx, acc2)])

\* apply_tx without the check of the nonce.
ApplyTxAnyNonce(d, tx, allow_treasury) ==
    Let([acc_src \in {GetAccount(d, tx.src)} |->
      IF tx.src = Treasury /\ ~allow_treasury THEN TxFail(d, "IllegalTreasuryAccess")
      ELSE IF ~VerifySignature(tx) THEN TxFail(d, "SignatureError")
      ELSE IF acc_src.balance < tx.fee THEN TxFail(d, "BalanceInsufficient")
      ELSE LET acc2 == Account(acc_src.balance - tx.fee, acc_src.nonce + 1)
           IN IF tx.data.type = "RegularSend" THEN ApplyRegularSend(d, tx, acc2)
              ELSE IF tx.data.type = "CreateContract" THEN ApplyCreateContract(d, tx, acc2)
              ELSE ApplyContractCall(d, tx, acc2)])

ApplyTx(d, tx, allow_treasury) ==
    Let([acc_src \in {GetAccount(d, tx.src)} |->
      IF tx.src = Treasury /\ ~allow_treasury THEN TxFail(d, "IllegalTreasuryAccess")
      ELSE IF ~VerifySignature(tx) THEN TxFail(d, "SignatureError")
      ELSE IF tx.nonce # acc_src.nonce + 1 THEN TxFail(d, "InvalidTransactionNonce")
      ELSE IF acc_src.balance < tx.fee THEN TxFail(d, "BalanceInsufficient")
      ELSE LET acc2 == Account(acc_src.balance - tx.fee, acc_src.nonce + 1)
           IN IF tx.data.type = "RegularSend" THEN ApplyRegularSend(d, tx, acc2)
              ELSE IF tx.data.type = "CreateContract" THEN ApplyCreateContract(d, tx, acc2)
              ELSE ApplyContractCall(d, tx, acc2)])

(***************************************************************************)
(* will_extend.                                                            *)
(***************************************************************************)
\* The checks of one header that come before its number and parent are
\* looked at: retarget, PoW key, median timestamp, target, PoW.  The error of
\* the first that fails, or "Ok".
\* The checks of will_extend without the one of the timestamp.
TargetChecksAnyTime(d, from, h, check_pow, last_header, last_pow) ==
    LET retarget == h.number % DIFFICULTY_CALC_INTERVAL = 0
        last_pow2 == IF retarget THEN h.proof_of_work ELSE last_pow
    IN IF retarget /\ h.proof_of_work.target
                        # CalcPowDifficulty(last_header.proof_of_work, last_pow)
       THEN "DifficultyTargetWrong"
       ELSE Let([pow_key \in {PowKey(d, h.number)} |->
         IF ~IsOk(pow_key) THEN pow_key.err
         ELSE IF last_pow2.target # h.proof_of_work.target THEN "DifficultyTargetWrong"
         ELSE IF check_pow /\ ~MeetsTarget(h, pow_key.val) THEN "DifficultyTargetUnmet"
         ELSE "Ok"])

TargetChecks(d, from, h, check_pow, last_header, last_pow) ==
    LET retarget == h.number % DIFFICULTY_CALC_INTERVAL = 0
        last_pow2 == IF retarget THEN h.proof_of_work ELSE last_pow
    IN IF retarget /\ h.proof_of_work.target
                        # CalcPowDifficulty(last_header.proof_of_work, last_pow)
       THEN "DifficultyTargetWrong"
       ELSE Let([pow_key \in {PowKey(d, h.number)} |->
         IF ~IsOk(pow_key) THEN pow_key.err
         ELSE Let([median \in {MedianTimestamp(d, from - 1)} |->
           IF ~IsOk(median) THEN median.err
           ELSE IF h.proof_of_work.timestamp < median.val THEN "InvalidTimestamp"
           ELSE IF last_pow2.target # h.proof_of_work.target THEN "DifficultyTargetWrong"
           ELSE IF check_pow /\ ~MeetsTarget(h, pow_key.val) THEN "DifficultyTargetUnmet"
           ELSE "Ok"])])

\* No check of the number or of the parent hash.
LinkChecksNone(h, last_header) == "Ok"

\* The checks of a header's number and parent hash.
LinkChecks(h, last_header) ==
    IF h.number # last_header.number + 1 THEN "InvalidBlockNumber"
    ELSE IF h.parent_hash # HeaderHash(last_header) THEN "InvalidParentHash"
    ELSE "Ok"

\* A comparison that lets a tie win.
OutweighsOrTies(new_power, current_power) == new_power >= current_power

\* The verdict of will_extend: new_power > current_power.
Outweighs(new_power, current_power) == new_power > current_power

RECURSIVE WillExtendLoop(_, _, _, _, _, _, _, _)
\* The loop over the headers; last_header, last_pow and new_power are the
\* loop's mutable locals.
WillExtendLoop(d, from, headers, check_pow, last_header, last_pow, new_power, current_power) ==
    IF headers = <<>> THEN Ok(Outweighs(new_power, current_power))
    ELSE
    LET h == Head(headers)
    IN Let([checked \in {TargetChecks(d, from, h, check_pow, last_header, last_pow)} |->
         IF checked # "Ok" THEN Err(checked)
         ELSE Let([linked \in {LinkChecks(h, last_header)} |->
           IF linked # "Ok" THEN Err(linked)
           ELSE WillExtendLoop(d, from, Tail(headers), check_pow, h,
                               IF h.number % DIFFICULTY_CALC_INTERVAL = 0
                               THEN h.proof_of_work ELSE last_pow,
                               new_power + HeaderPower(h), current_power)])])

WillExtend(d, from, headers, check_pow) ==
    Let([current_power \in {GetPower(d)} |->
      IF ~IsOk(current_power) THEN current_power
      ELSE IF from = 0 THEN Err("ExtendFromGenesis")
      ELSE IF from > GetHeight(d) THEN Err("ExtendFromFuture")
      ELSE
      Let([b \in {KvGet(d, PowerKey(from - 1))} |->
        IF ~IsSome(b) THEN Err("Inconsistency")
        ELSE
        Let([last_header \in {GetHeader(d, from - 1)} |->
          IF ~IsOk(last_header) THEN last_header
          ELSE
          Let([anchor \in {GetHeader(d, last_header.val.number
                              - (last_header.val.number % DIFFICULTY_CALC_INTERVAL))} |->
            IF ~IsOk(anchor) THEN anchor
            ELSE WillExtendLoop(d, from, headers, check_pow, last_header.val,
                                anchor.val.proof_of_work, Unwrap(b),
                                current_power.val)])])])])

(***************************************************************************)
(* rollback_block.  overflow_checks is the build: with overflow checks     *)
(* (debug) height - 1 at height 0 panics; without (release) it wraps to    *)
(* 2^64 - 1 and the rollback key of that index is looked up.               *)
(***************************************************************************)
RECURSIVE RollbackStates(_, _, _, _)
\* The loop over the changed states; acc holds the ops pushed so far and the
\* outdated map.
RollbackStates(d, changed, cids, acc) ==
    IF cids = <<>> \/ acc.err # "Ok" THEN acc
    ELSE
    LET cid == Head(cids)
        comp == changed[cid]
    IN IF cid \in DOMAIN acc.outdated THEN RollbackStates(d, changed, Tail(cids), acc)
       ELSE
       Let([contract \in {GetContract(d, cid)} |->
         IF ~IsOk(contract) THEN [acc EXCEPT !.err = contract.err]
         ELSE Let([state \in {ZkRollback(GetState(d, cid))} |->
           IF IsOk(state)
           THEN IF Compress(state.val, contract.val.state_model) # comp.prev_state
                THEN [acc EXCEPT !.err = "Inconsistency"]
                ELSE RollbackStates(d, changed, Tail(cids),
                         [acc EXCEPT !.ops = Append(@, Put(ContractStateKey(cid), state.val))])
           ELSE IF comp.prev_state.height > 0
           THEN RollbackStates(d, changed, Tail(cids),
                    [acc EXCEPT !.outdated = MapInsert(@, cid, comp.prev_state)])
           ELSE RollbackStates(d, changed, Tail(cids), acc)])])

RollbackBlock(d, overflow_checks) ==
    Let([height \in {GetHeight(d)} |->
      IF height = 0 /\ overflow_checks THEN [err |-> "Panic", db |-> d]
      ELSE
      LET index == IF height = 0 THEN U64 - 1 ELSE height - 1
      IN Let([b \in {KvGet(d, RollbackKey(index))} |->
        IF ~IsSome(b) THEN [err |-> "Inconsistency", db |-> d]
        ELSE Let([changed_states \in {GetChangedStates(d, index)} |->
          IF ~IsOk(changed_states) THEN [err |-> changed_states.err, db |-> d]
          ELSE
          Let([acc \in {RollbackStates(d, changed_states.val,
                                       SetToSeq(DOMAIN changed_states.val),
                                       [err |-> "Ok", ops |-> Unwrap(b),
                                        outdated |-> GetOutdatedStates(d)])} |->
            IF acc.err # "Ok" THEN [err |-> acc.err, db |-> d]
            ELSE [err |-> "Ok",
                  db |-> KvUpdate(d, acc.ops \o
                           <<Put(OutdatedKey, acc.outdated),
                             Remove(HeaderKey(index)),
                             Remove(BlockKey(index)),
                             Remove(MerkleKey(index)),
                             Remove(ContractUpdatesKey(index)),
                             Remove(RollbackKey(index))>>)]])])])])

(***************************************************************************)
(* apply_block.                                                            *)
(***************************************************************************)
ProofOfWork(timestamp, target, nonce) ==
    [timestamp |-> timestamp, target |-> target, nonce |-> nonce]
Header(parent_hash, number, block_root, proof_of_work) ==
    [parent_hash |-> parent_hash, number |-> number, block_root |-> block_root,
     proof_of_work |-> proof_of_work]
Block(header, body) == [header |-> header, body |-> body]

\* `x as usize` of an isize.
AsUsize(x) == IF x < 0 THEN x + U64 ELSE x

RECURSIVE ApplyBlockTxs(_, _, _)
\* The loop over the non-reward transactions; acc holds the fork, body_size,
\* state_size_delta, state_updates and outdated_states.
ApplyBlockTxs(txs, is_genesis, acc) ==
    IF txs = <<>> \/ acc.err # "Ok" THEN acc
    ELSE
    LET sized == [acc EXCEPT !.body_size = @ + TxSize(Head(txs))]
    IN Let([r \in {ApplyTx(acc.fork, Head(txs), is_genesis)} |->
         IF r.err # "Ok" THEN [sized EXCEPT !.err = r.err]
         ELSE IF IsSome(r.side)
         THEN LET e == Unwrap(r.side)
              IN ApplyBlockTxs(Tail(txs), is_genesis,
                   [sized EXCEPT
                      !.fork = r.db,
                      !.state_size_delta = @ + e.state_change.state.state_size
                                             - e.state_change.prev_state.state_size,
                      !.state_updates = MapInsert(@, e.contract_id, e.state_change),
                      !.outdated_states = MapInsert(@, e.contract_id, e.state_change.state)])
         ELSE ApplyBlockTxs(Tail(txs), is_genesis, [sized EXCEPT !.fork = r.db])])

\* The reward checks of a non-genesis block: the error, or "Ok".
\* The reward checks without the check of the amount.
CheckRewardTxAnyAmount(body, next_reward) ==
    IF body = <<>> THEN "MinerRewardNotFound"
    ELSE LET reward_tx == Head(body)
         IN IF reward_tx.src # Treasury \/ reward_tx.fee # 0 \/ reward_tx.sig # Unsigned
            THEN "InvalidMinerReward"
            ELSE IF reward_tx.data.type # "RegularSend" THEN "InvalidMinerReward"
            ELSE "Ok"

CheckRewardTx(body, next_reward) ==
    IF body = <<>> THEN "MinerRewardNotFound"
    ELSE LET reward_tx == Head(body)
         IN IF reward_tx.src # Treasury \/ reward_tx.fee # 0 \/ reward_tx.sig # Unsigned
            THEN "InvalidMinerReward"
            ELSE IF reward_tx.data.type # "RegularSend" THEN "InvalidMinerReward"
            ELSE IF reward_tx.data.amount # next_reward THEN "InvalidMinerReward"
            ELSE "Ok"

\* From fork_on_ram to the end.
ApplyBlockBody(d, block, curr_height, is_genesis, next_reward) ==
    LET fork0 == RamMirrorKvStore(d)
        number == block.header.number
        txs == IF is_genesis THEN block.body ELSE Tail(block.body)
    IN
    Let([reward_err \in {IF is_genesis THEN "Ok"
                         ELSE CheckRewardTx(block.body, next_reward)} |->
      IF reward_err # "Ok" THEN [err |-> reward_err, db |-> d]
      ELSE
      Let([rewarded \in {IF is_genesis THEN [err |-> "Ok", db |-> fork0]
                         ELSE ApplyTx(fork0, Head(block.body), TRUE)} |->
        IF rewarded.err # "Ok" THEN [err |-> rewarded.err, db |-> d]
        ELSE
        Let([acc \in {ApplyBlockTxs(txs, is_genesis,
                        [err |-> "Ok", fork |-> rewarded.db, body_size |-> 0,
                         state_size_delta |-> 0, state_updates |-> EmptyMap,
                         outdated_states |-> GetOutdatedStates(d)])} |->
          IF acc.err # "Ok" THEN [err |-> acc.err, db |-> d]
          ELSE IF AsUsize(acc.body_size + acc.state_size_delta) > MAX_DELTA_SIZE
          THEN [err |-> "BlockTooBig", db |-> d]
          ELSE
          Let([power \in {GetPower(d)} |->
            IF ~IsOk(power) THEN [err |-> power.err, db |-> d]
            ELSE
            Let([changes \in {ToOps(acc.fork) \o
                                <<Put(HeightKey, curr_height + 1),
                                  Put(PowerKey(number),
                                      HeaderPower(block.header) + power.val)>>} |->
              [err |-> "Ok",
               db |-> KvUpdate(d, changes \o
                        <<Put(RollbackKey(number), RollbackOf(d, changes)),
                          Put(HeaderKey(number), block.header),
                          Put(BlockKey(number), block),
                          Put(MerkleKey(number), MerkleTree(block.body)),
                          Put(ContractUpdatesKey(number), acc.state_updates),
                          Put(OutdatedKey, acc.outdated_states)>>)]])])])])])

ApplyBlock(d, block, check_pow) ==
    LET is_genesis == block.header.number = 0
    IN
    Let([curr_height \in {GetHeight(d)}, next_reward \in {NextReward(d)} |->
      IF curr_height > 0 /\ MerkleRoot(MerkleTree(block.body)) # block.header.block_root
      THEN [err |-> "InvalidMerkleRoot", db |-> d]
      ELSE
      Let([extends \in {IF curr_height > 0
                        THEN WillExtend(d, curr_height, <<block.header>>, check_pow)
                        ELSE Ok(TRUE)} |->
        IF ~IsOk(extends) THEN [err |-> extends.err, db |-> d]
        ELSE ApplyBlockBody(d, block, curr_height, is_genesis, next_reward)])])

(***************************************************************************)
(* extend.                                                                 *)
(***************************************************************************)
RECURSIVE RollbackTo(_, _, _)
\* while forked.get_height()? > from { forked.rollback_block()?; }
RollbackTo(forked, from, overflow_checks) ==
    IF GetHeight(forked) > from
    THEN Let([r \in {RollbackBlock(forked, overflow_checks)} |->
           IF r.err # "Ok" THEN r ELSE RollbackTo(r.db, from, overflow_checks)])
    ELSE [err |-> "Ok", db |-> forked]

\* The loop of extend that stops after the first block.
ApplyBlocksFirstOnly(forked, blocks) ==
    IF blocks = <<>> THEN [err |-> "Ok", db |-> forked]
    ELSE ApplyBlock(forked, Head(blocks), TRUE)

RECURSIVE ApplyBlocks(_, _)
\* for block in blocks.iter() { forked.apply_block(block, true)?; }
ApplyBlocks(forked, blocks) ==
    IF blocks = <<>> THEN [err |-> "Ok", db |-> forked]
    ELSE Let([r \in {ApplyBlock(forked, Head(blocks), TRUE)} |->
           IF r.err # "Ok" THEN r ELSE ApplyBlocks(r.db, Tail(blocks))])

\* extend without the checks of from.
ExtendUnguarded(d, from, blocks, overflow_checks) ==
    Let([rolled \in {RollbackTo(RamMirrorKvStore(d), from, overflow_checks)} |->
      IF rolled.err # "Ok" THEN [err |-> rolled.err, db |-> d]
      ELSE Let([applied \in {ApplyBlocks(rolled.db, blocks)} |->
        IF applied.err # "Ok" THEN [err |-> applied.err, db |-> d]
        ELSE [err |-> "Ok", db |-> KvUpdate(d, ToOps(applied.db))]])])

\* extend without fork_on_ram: the rollbacks and the blocks go to the store
\* itself, one by one.
ExtendInPlace(d, from, blocks, overflow_checks) ==
    LET curr_height == GetHeight(d)
    IN IF from = 0 THEN [err |-> "ExtendFromGenesis", db |-> d]
       ELSE IF from > curr_height THEN [err |-> "ExtendFromFuture", db |-> d]
       ELSE Let([rolled \in {RollbackTo(d, from, overflow_checks)} |->
              IF rolled.err # "Ok" THEN rolled ELSE ApplyBlocks(rolled.db, blocks)])

Extend(d, from, blocks, overflow_checks) ==
    LET curr_height == GetHeight(d)
    IN IF from = 0 THEN [err |-> "ExtendFromGenesis", db |-> d]
       ELSE IF from > curr_height THEN [err |-> "ExtendFromFuture", db |-> d]
       ELSE
       Let([rolled \in {RollbackTo(RamMirrorKvStore(d), from, overflow_checks)} |->
         IF rolled.err # "Ok" THEN [err |-> rolled.err, db |-> d]
         ELSE Let([applied \in {ApplyBlocks(rolled.db, blocks)} |->
           IF applied.err # "Ok" THEN [err |-> applied.err, db |-> d]
           ELSE [err |-> "Ok", db |-> KvUpdate(d, ToOps(applied.db))]])])

(***************************************************************************)
(* update_states.                                                          *)
(***************************************************************************)
FullPatch(state) == [kind |-> "Full", state |-> state]
DeltaPatch(delta) == [kind |-> "Delta", delta |-> delta]

RECURSIVE CompressPrevStates(_, _)
\* ZkState::compress_prev_states: the commitments of the states reached by
\* undoing the kept deltas one by one, most recent first.
CompressPrevStates(state, model) ==
    Let([r \in {ZkRollback(state)} |->
      IF IsOk(r) THEN <<Compress(r.val, model)>> \o CompressPrevStates(r.val, model)
      ELSE <<>>])

RECURSIVE CheckPrevStates(_, _, _, _, _, _)
\* The loop of the Full arm: every previous commitment of the patch must be
\* the one the chain recorded at that contract height.
CheckPrevStates(d, cid, account_height, calc, i, overflow_checks) ==
    IF i > Len(calc) THEN "Ok"
    ELSE
    LET index == account_height - 1 - (i - 1)
    IN IF index < 0 /\ overflow_checks THEN "Panic"
       ELSE Let([actual \in {GetCompressedStateAt(d, cid, AsUsize(index))} |->
         IF ~IsOk(actual) THEN actual.err
         ELSE IF calc[i] # actual.val THEN "DeltasInvalid"
         ELSE CheckPrevStates(d, cid, account_height, calc, i + 1, overflow_checks)])

RECURSIVE UpdateStatesLoop(_, _, _, _, _)
\* The loop over the outdated contracts; acc holds ops and outdated_states.
UpdateStatesLoop(d, patch, cids, acc, overflow_checks) ==
    IF cids = <<>> \/ acc.err # "Ok" THEN acc
    ELSE
    LET cid == Head(cids)
        comp_state == acc.all[cid]
    IN
    Let([contract \in {GetContract(d, cid)} |->
      IF ~IsOk(contract) THEN [acc EXCEPT !.err = contract.err]
      ELSE
      Let([contract_account \in {GetContractAccount(d, cid)} |->
        IF ~IsOk(contract_account) THEN [acc EXCEPT !.err = contract_account.err]
        ELSE IF cid \notin DOMAIN patch THEN [acc EXCEPT !.err = "FullStateNotFound"]
        ELSE
        LET p == patch[cid]
        IN
        Let([checked \in {IF p.kind = "Full"
                          THEN CheckPrevStates(d, cid, contract_account.val.height,
                                   CompressPrevStates(p.state, contract.val.state_model),
                                   1, overflow_checks)
                          ELSE "Ok"} |->
          IF checked # "Ok" THEN [acc EXCEPT !.err = checked]
          ELSE
          Let([full_state \in {IF p.kind = "Full" THEN p.state
                               ELSE PushDelta(GetState(d, cid), p.delta)} |->
            IF Compress(full_state, contract.val.state_model) # comp_state
            THEN [acc EXCEPT !.err = "FullStateNotValid"]
            ELSE UpdateStatesLoop(d, patch, Tail(cids),
                     [acc EXCEPT !.ops = Append(@, Put(ContractStateKey(cid), full_state)),
                                 !.outdated_states = MapRemove(@, cid)],
                     overflow_checks)])])])])

UpdateStates(d, patch, overflow_checks) ==
    Let([outdated_states \in {GetOutdatedStates(d)} |->
    Let([acc \in {UpdateStatesLoop(d, patch, SetToSeq(DOMAIN outdated_states),
                                   [err |-> "Ok", ops |-> <<>>, all |-> outdated_states,
                                    outdated_states |-> outdated_states],
                                   overflow_checks)} |->
      IF acc.err # "Ok" THEN [err |-> acc.err, db |-> d]
      ELSE [err |-> "Ok",
            db |-> KvUpdate(d, Append(acc.ops, Put(OutdatedKey, acc.outdated_states)))]])])

(***************************************************************************)
(* KvStoreChain::new: on an empty store, apply the genesis block and the   *)
(* genesis patch.  An error leaves whatever the failing step left.         *)
(***************************************************************************)
\* new that never applies the genesis block.
NewWithoutGenesis(d, genesis, overflow_checks) ==
    [err |-> "Ok", db |-> d]

New(d, genesis, overflow_checks) ==
    IF GetHeight(d) = 0
    THEN Let([applied \in {ApplyBlock(d, genesis.block, TRUE)} |->
           IF applied.err # "Ok" THEN applied
           ELSE UpdateStates(applied.db, genesis.patch, overflow_checks)])
    ELSE [err |-> "Ok", db |-> d]

(***************************************************************************)
(* The genesis block (config::genesis::get_genesis_block): one Treasury    *)
(* transfer, the root of its body, an empty patch.                         *)
(***************************************************************************)
GenesisAmount == 4
\* A transaction of the mempool with the delta its sender announces for the
\* contract's state, if any.
TransactionAndDelta(tx, state_delta) == [tx |-> tx, state_delta |-> state_delta]

\* select_transactions without the sort: the mempool in the order given.
SortByNonceNot(txs) ==
    txs

RECURSIVE SortByNonce(_)
\* sort_by on the nonces: a stable sort, by insertion from the left.
SortByNonce(txs) ==
    IF txs = <<>> THEN <<>>
    ELSE LET last == txs[Len(txs)]
             front == SortByNonce(SubSeq(txs, 1, Len(txs) - 1))
             keep == {i \in 1..Len(front) : front[i].tx.nonce <= last.tx.nonce}
         IN SubSeq(front, 1, Cardinality(keep)) \o <<last>>
              \o SubSeq(front, Cardinality(keep) + 1, Len(front))

RECURSIVE SelectLoop(_, _, _, _)
\* The loop of select_transactions: a transaction is taken when it fits in
\* the size left and applies on the fork after those taken before it.
SelectLoop(fork, sorted, sz, result) ==
    IF sorted = <<>> THEN result
    ELSE
    LET tx == Head(sorted)
        delta == TxSize(tx.tx)
                   + (IF IsSome(tx.state_delta) THEN DeltaSize(Unwrap(tx.state_delta)) ELSE 0)
    IN IF sz + delta <= MAX_DELTA_SIZE
       THEN Let([r \in {ApplyTx(fork, tx.tx, FALSE)} |->
              IF r.err = "Ok"
              THEN SelectLoop(r.db, Tail(sorted), sz + delta, Append(result, tx))
              ELSE SelectLoop(fork, Tail(sorted), sz, result)])
       ELSE SelectLoop(fork, Tail(sorted), sz, result)

\* select_transactions that takes every transaction, in nonce order.
SelectTransactionsAll(d, txs) ==
    SortByNonce(txs)

SelectTransactions(d, txs) ==
    SelectLoop(RamMirrorKvStore(d), SortByNonce(txs), 0, <<>>)

\* The contract a transaction writes to, if any.
ContractOf(tx) ==
    IF tx.data.type = "CreateContract" THEN Some(ContractIdNew(tx))
    ELSE IF tx.data.type \in {"DepositWithdraw", "Update"} THEN Some(tx.data.contract_id)
    ELSE None

RECURSIVE BlockDelta(_, _)
\* The patch of a drafted block: the delta of every selected transaction
\* that writes to a contract, the later one of a contract winning.
BlockDelta(tx_and_deltas, block_delta) ==
    IF tx_and_deltas = <<>> THEN Ok(block_delta)
    ELSE LET tx_delta == Head(tx_and_deltas)
             contract_id == ContractOf(tx_delta.tx)
         IN IF ~IsSome(contract_id) THEN BlockDelta(Tail(tx_and_deltas), block_delta)
            ELSE IF ~IsSome(tx_delta.state_delta) THEN Err("FullStateNotFound")
            ELSE BlockDelta(Tail(tx_and_deltas),
                            MapInsert(block_delta, Unwrap(contract_id),
                                      DeltaPatch(Unwrap(tx_delta.state_delta))))

\* draft_block without the trial of the block on a fork.
DraftBlockUnchecked(d, timestamp, mempool, wallet, overflow_checks) ==
    Let([height \in {GetHeight(d)} |->
      IF GetOutdatedStates(d) # EmptyMap THEN Err("StatesOutdated")
      ELSE IF height = 0 /\ overflow_checks THEN Err("Panic")
      ELSE
      Let([last_header \in {GetHeader(d, IF height = 0 THEN U64 - 1 ELSE height - 1)} |->
        IF ~IsOk(last_header) THEN last_header
        ELSE
        Let([tx_and_deltas \in {SelectTransactions(d, mempool)},
             target \in {NextDifficulty(d)} |->
        Let([block_delta \in {BlockDelta(tx_and_deltas, EmptyMap)} |->
          IF ~IsOk(block_delta) THEN block_delta
          ELSE IF ~IsOk(target) THEN target
          ELSE
          Let([txs \in {<<Tx(Treasury, GetAccount(d, Treasury).nonce + 1,
                             RegularSend(wallet, NextReward(d)), 0, Unsigned)>>
                          \o [i \in 1..Len(tx_and_deltas) |-> tx_and_deltas[i].tx]} |->
          Let([blk \in {Block(Header(HeaderHash(last_header.val), height,
                                     MerkleRoot(MerkleTree(txs)),
                                     ProofOfWork(timestamp, target.val, <<>>)),
                              txs)} |->
            Ok([block |-> blk, patch |-> block_delta.val])])])])])])])

\* draft_block without the check of the outdated states.
DraftBlockAnyway(d, timestamp, mempool, wallet, overflow_checks) ==
    Let([height \in {GetHeight(d)} |->
      IF height = 0 /\ overflow_checks THEN Err("Panic")
      ELSE
      Let([last_header \in {GetHeader(d, IF height = 0 THEN U64 - 1 ELSE height - 1)} |->
        IF ~IsOk(last_header) THEN last_header
        ELSE
        Let([tx_and_deltas \in {SelectTransactions(d, mempool)},
             target \in {NextDifficulty(d)} |->
        Let([block_delta \in {BlockDelta(tx_and_deltas, EmptyMap)} |->
          IF ~IsOk(block_delta) THEN block_delta
          ELSE IF ~IsOk(target) THEN target
          ELSE
          Let([txs \in {<<Tx(Treasury, GetAccount(d, Treasury).nonce + 1,
                             RegularSend(wallet, NextReward(d)), 0, Unsigned)>>
                          \o [i \in 1..Len(tx_and_deltas) |-> tx_and_deltas[i].tx]} |->
          Let([blk \in {Block(Header(HeaderHash(last_header.val), height,
                                     MerkleRoot(MerkleTree(txs)),
                                     ProofOfWork(timestamp, target.val, <<>>)),
                              txs)} |->
          Let([applied \in {ApplyBlock(RamMirrorKvStore(d), blk, FALSE)} |->
            IF applied.err # "Ok" THEN Err(applied.err)
            ELSE
            Let([updated \in {UpdateStates(applied.db, block_delta.val, overflow_checks)} |->
              IF updated.err # "Ok" THEN Err(updated.err)
              ELSE Ok([block |-> blk, patch |-> block_delta.val])])])])])])])])])

\* draft_block: the Result, with the block and the patch when it is Ok.
\* height - 1 on an empty chain panics in a build with overflow checks and
\* wraps in one without.
DraftBlock(d, timestamp, mempool, wallet, overflow_checks) ==
    Let([height \in {GetHeight(d)} |->
      IF GetOutdatedStates(d) # EmptyMap THEN Err("StatesOutdated")
      ELSE IF height = 0 /\ overflow_checks THEN Err("Panic")
      ELSE
      Let([last_header \in {GetHeader(d, IF height = 0 THEN U64 - 1 ELSE height - 1)} |->
        IF ~IsOk(last_header) THEN last_header
        ELSE
        Let([tx_and_deltas \in {SelectTransactions(d, mempool)},
             target \in {NextDifficulty(d)} |->
        Let([block_delta \in {BlockDelta(tx_and_deltas, EmptyMap)} |->
          IF ~IsOk(block_delta) THEN block_delta
          ELSE IF ~IsOk(target) THEN target
          ELSE
          Let([txs \in {<<Tx(Treasury, GetAccount(d, Treasury).nonce + 1,
                             RegularSend(wallet, NextReward(d)), 0, Unsigned)>>
                          \o [i \in 1..Len(tx_and_deltas) |-> tx_and_deltas[i].tx]} |->
          Let([blk \in {Block(Header(HeaderHash(last_header.val), height,
                                     MerkleRoot(MerkleTree(txs)),
                                     ProofOfWork(timestamp, target.val, <<>>)),
                              txs)} |->
          Let([applied \in {ApplyBlock(RamMirrorKvStore(d), blk, FALSE)} |->
            IF applied.err # "Ok" THEN Err(applied.err)
            ELSE
            Let([updated \in {UpdateStates(applied.db, block_delta.val, overflow_checks)} |->
              IF updated.err # "Ok" THEN Err(updated.err)
              ELSE Ok([block |-> blk, patch |-> block_delta.val])])])])])])])])])

GenesisBody == <<Tx(Treasury, 1, RegularSend(Alice, GenesisAmount), 0, Unsigned)>>
GenesisBlock ==
    Block(Header(DefaultHash, 0, MerkleRoot(MerkleTree(GenesisBody)),
                 ProofOfWork(0, GenesisTarget, <<>>)),
          GenesisBody)
Genesis == [block |-> GenesisBlock, patch |-> EmptyMap]

(***************************************************************************)
(* The callers' inputs.  A candidate block is what a miner builds on the   *)
(* chain it sees (the reward transaction first, the next number, the hash  *)
(* of the tip, the next target, the root of the body, a nonce mined under  *)
(* the key of its number), with one choice of user transactions, one       *)
(* timestamp and at most one defect.                                       *)
(***************************************************************************)
\* The one contract the users deploy: its owner's full state after creation
\* is one occupied cell; its functions are verified with Groth16 keys.
InitialFullState == PushDelta(ZkStateDefault, ZkDelta({1}, {}))
TheContract ==
    ZkContract(Compress(InitialFullState, StateModel), StateModel, "Groth16", <<"Groth16">>)
Groth16Proof(ok) == [kind |-> "Groth16", ok |-> ok]

\* The transaction that deploys it: the first one Alice signs.
CreateTx == SignedTx(Alice, 1, CreateContract(TheContract), 0)
\* The contract the updates are aimed at.
TargetContract == ContractIdNew(CreateTx)
\* The delta the owner applies next: set cell 2, or clear it when it is set.
NextDelta(data) == IF 2 \in data THEN ZkDelta({}, {2}) ELSE ZkDelta({2}, {})
\* The commitment an honest update announces for the contract.
NextStateOf(d, cid) ==
    Let([account \in {GetContractAccount(d, cid)} |->
    Let([prev \in {IF IsOk(account) THEN account.val.compressed_state
                   ELSE Compress(InitialFullState, StateModel)} |->
    Let([next \in {ApplyDelta(prev.state_hash[2], NextDelta(prev.state_hash[2]))} |->
      [height |-> prev.height + 1,
       state_hash |-> <<"root", next>>,
       state_size |-> Cardinality(next)]])])])

BodyChoices ==
    {"empty", "send", "create", "update",
     "nonce", "unsigned", "forged", "overspend", "treasury", "badproof", "nofunction",
     "replay", "selfsend"}
ValidBodies == {"empty", "send", "create", "update"}

\* The user transactions of the persisted blocks above the genesis block.
AppliedTxs(d) ==
    UNION {{GetBlock(d, i).val.body[j] : j \in 2..Len(GetBlock(d, i).val.body)} :
             i \in 1..(GetHeight(d) - 1)}

\* The user transactions of a body choice, on the chain d.  "replay" is the
\* last transaction the chain applied; "selfsend" sends Alice's whole
\* balance to herself for a fee of 1.
UserTxs(d, body) ==
    LET cid == TargetContract
    IN Let([n \in {GetAccount(d, Alice).nonce + 1} |->
       CASE body = "empty" -> <<>>
         [] body = "send" -> <<SignedTx(Alice, n, RegularSend(Bob, 1), 1)>>
         [] body = "create" -> <<CreateTx>>
         [] body = "update" ->
              <<SignedTx(Alice, n, Update(cid, 0, NextStateOf(d, cid), Groth16Proof(TRUE)), 0)>>
         [] body = "nonce" -> <<SignedTx(Alice, n + 1, RegularSend(Bob, 1), 0)>>
         [] body = "unsigned" -> <<Tx(Alice, n, RegularSend(Bob, 1), 0, Unsigned)>>
         [] body = "forged" ->
              <<Tx(Alice, n, RegularSend(Bob, 1), 0,
                   Signed(Bob, Tx(Alice, n, RegularSend(Bob, 1), 0, Unsigned)))>>
         [] body = "overspend" -> <<SignedTx(Alice, n, RegularSend(Bob, TOTAL_SUPPLY), 0)>>
         [] body = "treasury" ->
              <<Tx(Treasury, GetAccount(d, Treasury).nonce + 2, RegularSend(Bob, 1), 0, Unsigned)>>
         [] body = "badproof" ->
              <<SignedTx(Alice, n, Update(cid, 0, NextStateOf(d, cid), Groth16Proof(FALSE)), 0)>>
         [] body = "nofunction" ->
              <<SignedTx(Alice, n, Update(cid, 1, NextStateOf(d, cid), Groth16Proof(TRUE)), 0)>>
         [] body = "replay" ->
              Let([applied \in {AppliedTxs(d)} |->
                IF applied = {} THEN <<>>
                ELSE <<CHOOSE tx \in applied : \A other \in applied : other.nonce <= tx.nonce>>])
         [] body = "selfsend" ->
              <<SignedTx(Alice, n, RegularSend(Alice, GetAccount(d, Alice).balance), 1)>>])

Defects ==
    {"none", "number", "renumbered", "parent", "root", "target", "pow",
     "noreward", "reward", "rewardfee", "rewardsrc", "rewardsigned", "rewardkind"}

\* The reward transaction a miner puts first (as draft_block builds it).
RewardTx(d, defect) ==
    LET src == IF defect = "rewardsrc" THEN Alice ELSE Treasury
        data == IF defect = "rewardkind" THEN CreateContract(TheContract)
                ELSE RegularSend(Miner, NextReward(d) + (IF defect = "reward" THEN 1 ELSE 0))
        fee == IF defect = "rewardfee" THEN 1 ELSE 0
        nonce == GetAccount(d, src).nonce + 1
    IN IF defect = "rewardsigned" THEN SignedTx(src, nonce, data, fee)
       ELSE Tx(src, nonce, data, fee, Unsigned)

\* The candidate block of a choice c = [body, ts, defect] on the chain d;
\* on an empty chain, the genesis block.
MakeBlock(d, c) ==
    Let([height \in {GetHeight(d)} |->
    IF height = 0 THEN GenesisBlock ELSE
    LET number == IF c.defect \in {"number", "renumbered"} THEN height + 1 ELSE height
        \* "renumbered": a header that is right for the number it claims.
        claimed == IF c.defect = "renumbered" THEN height + 1 ELSE height
    IN
    Let([tip \in {GetHeader(d, height - 1).val},
         body \in {(IF c.defect = "noreward" THEN <<>> ELSE <<RewardTx(d, c.defect)>>)
                     \o UserTxs(d, c.body)},
         key \in {PowKey(d, claimed)} |->
    Let([anchor \in {GetHeader(d, tip.number
                                    - (tip.number % DIFFICULTY_CALC_INTERVAL)).val} |->
    Let([due \in {IF claimed % DIFFICULTY_CALC_INTERVAL = 0
                  THEN CalcPowDifficulty(tip.proof_of_work, anchor.proof_of_work)
                  ELSE tip.proof_of_work.target} |->
      Block(Header(IF c.defect = "parent" THEN DefaultHash ELSE HeaderHash(tip),
                   number,
                   IF c.defect = "root" THEN DefaultHash ELSE MerkleRoot(MerkleTree(body)),
                   ProofOfWork(c.ts,
                               IF c.defect = "target" THEN due + 1 ELSE due,
                               IF c.defect = "pow" \/ ~IsOk(key) THEN <<>>
                               ELSE <<key.val>>)),
            body)])])])])

Choice(body, ts, defect) == [body |-> body, ts |-> ts, defect |-> defect]

\* One block on the tip: every valid body, every timestamp, and every invalid
\* body and every defect at a timestamp the median admits.
TipChoices ==
    {Choice(b, MaxTimestamp, "none") : b \in BodyChoices}
    \cup {Choice("empty", ts, "none") : ts \in 0..MaxTimestamp}
    \cup {Choice("empty", MaxTimestamp, f) : f \in Defects}
\* The blocks of a fork, and the last block of a longer list.
ForkChoices ==
    {Choice("empty", 0, "none"), Choice("empty", MaxTimestamp, "none"),
     Choice("send", MaxTimestamp, "none"),
     Choice("empty", MaxTimestamp, "parent"), Choice("empty", MaxTimestamp, "root"),
     Choice("empty", MaxTimestamp, "number")}
\* The blocks before the last one of a longer list.
LeadChoices == {Choice("empty", MaxTimestamp, "none"), Choice("send", MaxTimestamp, "none")}
\* The headers handed to will_extend.
HeaderChoices == ForkChoices \cup {Choice("empty", MaxTimestamp, "pow")}

RECURSIVE ListsOf(_, _)
\* The lists of n choices: LeadChoices, then a last one of the set given.
ListsOf(n, last) ==
    IF n = 0 THEN {<<>>}
    ELSE IF n = 1 THEN {<<c>> : c \in last}
    ELSE {<<c>> \o l : c \in LeadChoices, l \in ListsOf(n - 1, last)}

\* The lists of choices handed to extend(from, ..) or will_extend(from, ..)
\* on a chain of the given height; a list goes no further than MaxHeight.
ChoiceLists(height, from, tip, fork) ==
    IF from = 0 \/ from > height
    THEN {<<>>, <<Choice("empty", MaxTimestamp, "none")>>,
          <<Choice("empty", MaxTimestamp, "root")>>}
    ELSE UNION {ListsOf(n, IF n = 1 /\ from = height THEN tip ELSE fork) :
                  n \in {n \in 0..MaxExtend : from + n <= MaxHeight}}

RECURSIVE MakeBlocks(_, _)
\* The blocks of a list of choices, each built on the chain the previous
\* ones leave (or on the same chain, once one of them is rejected).
MakeBlocks(d, cs) ==
    IF cs = <<>> THEN <<>>
    ELSE Let([b \in {MakeBlock(d, Head(cs))} |->
           <<b>> \o MakeBlocks(ApplyBlock(d, b, TRUE).db, Tail(cs))])

\* The blocks of a list of choices for extend(from, ..) on the store m:
\* built on the chain rolled back to from.
Candidates(m, from, cs) ==
    MakeBlocks(IF from >= 1
               THEN RollbackTo(RamMirrorKvStore(RamKvStore(m)), from, TRUE).db
               ELSE RamKvStore(m), cs)

\* The patches handed to update_states: for every outdated contract the same
\* option (none, a delta, or a full state of the owner's history with or
\* without its kept deltas).
OwnerState2 == PushDelta(InitialFullState, NextDelta(InitialFullState.data))
OwnerState3 == PushDelta(OwnerState2, NextDelta(OwnerState2.data))
PatchOptions ==
    {[kind |-> "None"]}
    \cup {DeltaPatch(dl) : dl \in {ZkDelta({1}, {}), ZkDelta({2}, {}), ZkDelta({}, {2})}}
    \cup {FullPatch(st) : st \in {InitialFullState, OwnerState2, OwnerState3,
                                   ZkStateNew(2, OwnerState2.data)}}
PatchOf(m, option) ==
    IF option.kind = "None" THEN EmptyMap
    ELSE [cid \in DOMAIN GetOutdatedStates(RamKvStore(m)) |-> option]

\* A transaction as its sender hands it to the mempool: a contract creation
\* or update comes with the delta that leads to the state it announces.
WithDelta(d, tx) ==
    TransactionAndDelta(tx,
      IF tx.data.type = "CreateContract" THEN Some(ZkDelta({1}, {}))
      ELSE IF tx.data.type = "Update"
      THEN Let([account \in {GetContractAccount(d, tx.data.contract_id)} |->
             LET prev == IF IsOk(account) THEN account.val.compressed_state.state_hash[2]
                         ELSE InitialFullState.data
             IN Some(NextDelta(prev))])
      ELSE None)

\* The mempools handed to draft_block: none, one transaction of each kind
\* the callers build, an applied transaction alone and before a new one,
\* a contract transaction without its delta, pairs out of nonce order or
\* with one transaction that cannot be applied, and sends that come with a
\* delta too large for a block, alone or together with the next send.
Mempools(m) ==
    LET d == RamKvStore(m)
        one(body) == [i \in 1..Len(UserTxs(d, body)) |-> WithDelta(d, UserTxs(d, body)[i])]
    IN {one(body) : body \in BodyChoices}
       \cup {<<WithDelta(d, tx)>> : tx \in AppliedTxs(d)}
       \cup {<<WithDelta(d, tx)>> \o one("send") : tx \in AppliedTxs(d)}
       \cup {<<TransactionAndDelta(CreateTx, None)>>,
             one("nonce") \o one("send"),
             one("treasury") \o one("send"),
             one("unsigned") \o one("send"),
             one("send") \o one("forged"),
             <<TransactionAndDelta(UserTxs(d, "send")[1], Some(ZkDelta({1, 2, 3}, {})))>>,
             <<TransactionAndDelta(UserTxs(d, "send")[1], Some(ZkDelta({1, 2}, {})))>>
               \o one("nonce")}

(***************************************************************************)
(* generate_state_patch.                                                   *)
(***************************************************************************)
\* ZkState::delta_of(away): the delta that leads from the state `away`
\* heights back to this one, if that many deltas are kept.
DeltaOf(state, away) ==
    IF away > Len(state.rollbacks) THEN Err("DeltaNotFound")
    ELSE LET kept == Len(state.rollbacks)
             touched == UNION {state.rollbacks[i].add \cup state.rollbacks[i].del :
                                 i \in (kept - away + 1)..kept}
         IN Ok(ZkDelta(touched \cap state.data, touched \ state.data))

\* generate_state_patch(aways, to): for every contract asked for that is not
\* outdated here, the delta from the asker's height, or the full state.
GenerateStatePatch(d, aways, to, overflow_checks) ==
    Let([height \in {GetHeight(d)} |->
      IF height = 0 /\ overflow_checks THEN Err("Panic")
      ELSE
      Let([last_header \in {GetHeader(d, AsUsize(height - 1))} |->
        IF ~IsOk(last_header) THEN last_header
        ELSE IF HeaderHash(last_header.val) # to THEN Err("StatesUnavailable")
        ELSE
        LET cids == DOMAIN aways \ DOMAIN GetOutdatedStates(d)
        IN IF overflow_checks
              /\ \E cid \in cids : GetState(d, cid).height < aways[cid].height
           THEN Err("Panic")
           ELSE Ok([cid \in cids |->
                      Let([state \in {GetState(d, cid)} |->
                      Let([delta \in {DeltaOf(state,
                                        AsUsize(state.height - aways[cid].height))} |->
                        IF IsOk(delta) THEN DeltaPatch(delta.val)
                        ELSE FullPatch(state)])])])])])

\* The build: with or without overflow checks.
Builds == BOOLEAN

(***************************************************************************)
(* The state machine.  db is the persisted store; ret is the Result the    *)
(* most recent call handed back, with the call's arguments and the store   *)
(* it started from, until the caller takes it (the chain is used under a   *)
(* lock: one call at a time).                                              *)
(***************************************************************************)
Idle == [op |-> "idle"]
Returned(op, arg, r) == [op |-> op, arg |-> arg, err |-> r.err, pre |-> db]

\* KvStoreChain::new on an empty RamKvStore.
Init ==
    /\ db = New(RamKvStore(EmptyMap), Genesis, TRUE).db.data
    /\ ret = Idle

\* KvStoreChain::new on the store as it is (the node starts again).
CallNew ==
    /\ ret = Idle
    /\ \E overflow_checks \in Builds :
         \E r \in {New(RamKvStore(db), Genesis, overflow_checks)} :
            /\ db' = r.db.data
            /\ ret' = Returned("new", <<>>, r)

\* extend(from, blocks)
CallExtend ==
    /\ ret = Idle
    /\ \E from \in 0..(GetHeight(RamKvStore(db)) + 1) :
         \E cs \in ChoiceLists(GetHeight(RamKvStore(db)), from, TipChoices, ForkChoices) :
           \E blocks \in {Candidates(db, from, cs)} :
             \E r \in {Extend(RamKvStore(db), from, blocks, TRUE)} :
               /\ db' = r.db.data
               /\ ret' = Returned("extend", [from |-> from, blocks |-> blocks], r)

\* rollback_block()
CallRollbackBlock ==
    /\ ret = Idle
    /\ \E overflow_checks \in Builds :
         \E r \in {RollbackBlock(RamKvStore(db), overflow_checks)} :
            /\ db' = r.db.data
            /\ ret' = Returned("rollback_block", <<>>, r)

\* update_states(patch)
CallUpdateStates ==
    /\ ret = Idle
    /\ \E option \in PatchOptions, overflow_checks \in Builds :
         \E patch \in {PatchOf(db, option)} :
           \E r \in {UpdateStates(RamKvStore(db), patch, overflow_checks)} :
             /\ db' = r.db.data
             /\ ret' = Returned("update_states", patch, r)

\* will_extend(from, headers, check_pow)
CallWillExtend ==
    /\ ret = Idle
    /\ \E from \in 0..(GetHeight(RamKvStore(db)) + 1), check_pow \in BOOLEAN :
         \E cs \in ChoiceLists(GetHeight(RamKvStore(db)), from, HeaderChoices, HeaderChoices) :
           \E blocks \in {Candidates(db, from, cs)} :
             \E headers \in {[i \in 1..Len(blocks) |-> blocks[i].header]} :
               \E r \in {WillExtend(RamKvStore(db), from, headers, check_pow)} :
                 /\ db' = db
                 /\ ret' = [op |-> "will_extend",
                            arg |-> [from |-> from, headers |-> headers,
                                     check_pow |-> check_pow],
                            err |-> r.err, pre |-> db,
                            val |-> IF IsOk(r) THEN r.val ELSE FALSE]

CallDraftBlock ==
    /\ ret = Idle
    /\ \E timestamp \in 0..MaxTimestamp, overflow_checks \in Builds :
         \E mempool \in Mempools(db) :
           \E r \in {DraftBlock(RamKvStore(db), timestamp, mempool, Miner, overflow_checks)} :
             /\ db' = db
             /\ ret' = [op |-> "draft_block",
                        arg |-> [timestamp |-> timestamp, mempool |-> mempool,
                                 overflow_checks |-> overflow_checks],
                        err |-> r.err, pre |-> db,
                        val |-> IF IsOk(r) THEN r.val ELSE FALSE]

\* generate_state_patch(aways, to): a peer asks for the contracts it lists
\* as outdated (those of this store, the contract at the state the chain
\* commits to, or at its first state), up to the tip or to another hash.
CallGenerateStatePatch ==
    /\ ret = Idle
    /\ \E overflow_checks \in Builds :
         \E account \in {GetContractAccount(RamKvStore(db), TargetContract)} :
           \E aways \in {EmptyMap, GetOutdatedStates(RamKvStore(db)),
                          TargetContract :> Compress(InitialFullState, StateModel)}
                         \cup (IF IsOk(account)
                               THEN {TargetContract :> account.val.compressed_state}
                               ELSE {}) :
             \E to \in {DefaultHash}
                        \cup (IF GetHeight(RamKvStore(db)) > 0
                              THEN {HeaderHash(GetHeader(RamKvStore(db),
                                                         GetHeight(RamKvStore(db)) - 1).val)}
                              ELSE {}) :
               \E r \in {GenerateStatePatch(RamKvStore(db), aways, to, overflow_checks)} :
                 /\ db' = db
                 /\ ret' = [op |-> "generate_state_patch",
                            arg |-> [aways |-> aways, to |-> to,
                                     overflow_checks |-> overflow_checks],
                            err |-> r.err, pre |-> db,
                            val |-> IF IsOk(r) THEN r.val ELSE FALSE]

\* The caller takes the Result.
Return ==
    /\ ret # Idle
    /\ ret' = Idle
    /\ UNCHANGED db

Next ==
    \/ CallNew
    \/ CallExtend
    \/ CallRollbackBlock
    \/ CallUpdateStates
    \/ CallWillExtend
    \/ CallGenerateStatePatch
    \/ CallDraftBlock
    \/ Return

Spec == Init /\ [][Next]_vars

(***************************************************************************)
(* sync_blocks (node::heartbeat): one run of the task, a step for each     *)
(* stretch it executes between two awaits, with the node's other chain     *)
(* writers running in between.  The peer holds a chain that leaves the     *)
(* local one at some height; it answers header requests from that chain    *)
(* and block requests with those blocks or with a part of them.            *)
(***************************************************************************)
\* The most powerful active peer of the node on the store m: none, or one
\* with its chain and the height and power it claims (its chain's, or more).
\* The chain leaves the local one at f; its last block may carry a send, an
\* old timestamp or no proof of work.
Peers(m) ==
    LET d == RamKvStore(m)
        height == GetHeight(d)
        PeerLast == {Choice("send", MaxTimestamp, "none"), Choice("empty", 0, "none"),
                     Choice("empty", MaxTimestamp, "pow")}
    IN {[info |-> None, chain |-> <<>>]}
       \cup UNION {UNION {
              LET chain == GetBlocks(d, 0, Some(f)).val \o Candidates(m, f, cs)
                  power == SumSeq([i \in 1..Len(chain) |-> HeaderPower(chain[i].header)])
              IN {[info |-> Some([power |-> p, height |-> Len(chain)]), chain |-> chain] :
                    p \in {power, GetPower(d).val + 1}} :
              cs \in UNION {ListsOf(n, PeerLast) :
                              n \in {n \in 0..MaxExtend : f + n <= MaxHeight}}} :
            f \in 1..height}

\* sync_blocks up to the first request: read power and height, pick the
\* most powerful peer, return when there is none or it claims no more power.
SyncStart ==
    /\ ret = Idle
    /\ \E peer \in Peers(db) :
         \E power \in {GetPower(RamKvStore(db)).val}, height \in {GetHeight(RamKvStore(db))} :
           /\ ret' = [op |-> "sync_blocks",
                      pc |-> IF ~IsSome(peer.info) THEN "done"
                             ELSE IF Unwrap(peer.info).power <= power THEN "done"
                             ELSE "get_headers",
                      err |-> IF ~IsSome(peer.info) THEN "NoPeers" ELSE "Ok",
                      power |-> power, height |-> height, peer |-> peer,
                      start_height |-> IF ~IsSome(peer.info) THEN 0
                                       ELSE IF height < Unwrap(peer.info).height THEN height
                                       ELSE Unwrap(peer.info).height,
                      headers |-> <<>>, index |-> 0, will |-> "none", approved |-> db,
                      blocks |-> <<>>, pre |-> db, extended |-> FALSE, punished |-> FALSE]
           /\ UNCHANGED db

\* The peer's answer to the request for the headers since start_height.
SyncGetHeaders ==
    /\ ret.op = "sync_blocks"
    /\ ret.pc = "get_headers"
    /\ ret' = [ret EXCEPT
                 !.headers = [i \in 1..(Len(ret.peer.chain) - ret.start_height) |->
                                ret.peer.chain[ret.start_height + i].header],
                 !.index = ret.start_height - 1,
                 !.pc = IF ret.start_height = 0 THEN "will_extend" ELSE "find_fork"]
    /\ UNCHANGED db

\* One turn of the loop that looks for the fork: the peer's header at index
\* against the local one, read under the read lock.
SyncFindFork ==
    /\ ret.op = "sync_blocks"
    /\ ret.pc = "find_fork"
    /\ \E local \in {GetHeaders(RamKvStore(db), ret.index, Some(ret.index + 1))} :
         \E peer_header \in {ret.peer.chain[ret.index + 1].header} :
           ret' = IF ~IsOk(local) THEN [ret EXCEPT !.pc = "done", !.err = local.err]
                  ELSE IF local.val = <<>> THEN [ret EXCEPT !.pc = "done", !.err = "Panic"]
                  ELSE IF HeaderHash(local.val[1]) # HeaderHash(peer_header)
                  THEN [ret EXCEPT !.headers = <<peer_header>> \o @,
                                   !.index = @ - 1,
                                   !.pc = IF ret.index = 0 THEN "will_extend" ELSE "find_fork"]
                  ELSE [ret EXCEPT !.pc = "will_extend"]
    /\ UNCHANGED db

\* The block under the first write lock: the ban on the headers (banned is
\* what banned_headers and the clock say of them), then will_extend.
SyncWillExtend ==
    /\ ret.op = "sync_blocks"
    /\ ret.pc = "will_extend"
    /\ \E banned \in {b \in BOOLEAN : b => ret.headers # <<>>} :
         ret' = IF banned THEN [ret EXCEPT !.pc = "punish", !.approved = db]
                ELSE IF ret.headers = <<>> THEN [ret EXCEPT !.pc = "done", !.err = "Panic"]
                ELSE Let([w \in {WillExtend(RamKvStore(db), ret.headers[1].number,
                                            ret.headers, TRUE)} |->
                       IF IsOk(w) /\ w.val
                       THEN [ret EXCEPT !.pc = "get_blocks", !.will = "true", !.approved = db]
                       ELSE [ret EXCEPT !.pc = "punish", !.will = "false", !.approved = db]])
    /\ UNCHANGED db

\* The peer's answer to the request for the blocks since headers[0].number:
\* the blocks of its chain from there on, or the first of them only.
SyncGetBlocks ==
    /\ ret.op = "sync_blocks"
    /\ ret.pc = "get_blocks"
    /\ \E n \in 0..(Len(ret.peer.chain) - ret.headers[1].number) :
         ret' = [ret EXCEPT !.pc = "extend",
                            !.blocks = SubSeq(ret.peer.chain, ret.headers[1].number + 1,
                                              ret.headers[1].number + n)]
    /\ UNCHANGED db

\* The second write lock: extend(headers[0].number, blocks).
SyncExtend ==
    /\ ret.op = "sync_blocks"
    /\ ret.pc = "extend"
    /\ \E r \in {Extend(RamKvStore(db), ret.headers[1].number, ret.blocks, TRUE)} :
         /\ db' = r.db.data
         /\ ret' = [ret EXCEPT !.pc = "done", !.err = r.err, !.pre = db, !.extended = TRUE]

\* The other arm: punish the peer.
SyncPunish ==
    /\ ret.op = "sync_blocks"
    /\ ret.pc = "punish"
    /\ ret' = [ret EXCEPT !.pc = "done", !.pre = db, !.punished = TRUE]
    /\ UNCHANGED db

\* Another task of the node takes the write lock while sync_blocks is
\* between two of its steps, or not running, and puts a block it received
\* on the tip.
ChainWriter ==
    /\ IF ret = Idle THEN TRUE ELSE ret.pc # "done"
    /\ GetHeight(RamKvStore(db)) < MaxHeight
    /\ \E block \in {MakeBlock(RamKvStore(db), Choice("empty", MaxTimestamp, "none"))} :
         \E r \in {Extend(RamKvStore(db), GetHeight(RamKvStore(db)), <<block>>, TRUE)} :
           db' = r.db.data
    /\ UNCHANGED ret

SyncReturn ==
    /\ ret # Idle
    /\ ret.pc = "done"
    /\ ret' = Idle
    /\ UNCHANGED db

SyncNext ==
    \/ SyncStart
    \/ SyncGetHeaders
    \/ SyncFindFork
    \/ SyncWillExtend
    \/ SyncGetBlocks
    \/ SyncExtend
    \/ SyncPunish
    \/ ChainWriter
    \/ SyncReturn

SyncSpec == Init /\ [][SyncNext]_vars

(***************************************************************************)
(* db::LruCacheKvStore: a store behind an LRU cache of the answers of get  *)
(* (key -> Option<Blob>).  The cache is the lru crate's: a list of         *)
(* entries, the most recently used first, of at most cap entries.          *)
(***************************************************************************)
MaxCap == 2
MaxLruKeys == 3
LruKeys == {<<"lru", i>> : i \in 1..MaxLruKeys}
LruValues == {0, 7}

\* LruCache::pop: drop the entry of k, if any.
LruCachePop(cache, k) == SelectSeq(cache, LAMBDA e : e.k # k)
\* LruCache::put: the entry of k becomes the most recent one; a full cache
\* drops its least recent entry for a new key.
LruCachePut(cache, cap, k, v) ==
    LET others == LruCachePop(cache, k)
    IN <<[k |-> k, v |-> v]>>
       \o (IF Len(others) >= cap THEN SubSeq(others, 1, cap - 1) ELSE others)
\* LruCache::get: the value of k, which becomes the most recent entry.
LruCacheGet(cache, k) ==
    IF \E i \in 1..Len(cache) : cache[i].k = k
    THEN LET e == cache[CHOOSE i \in 1..Len(cache) : cache[i].k = k]
         IN [found |-> TRUE, val |-> e.v, cache |-> <<e>> \o LruCachePop(cache, k)]
    ELSE [found |-> FALSE, val |-> None, cache |-> cache]

\* LruCacheKvStore::new
LruCacheKvStoreNew(store, cap) ==
    [kind |-> "lru", store |-> store, cache |-> <<>>, cap |-> cap]

\* KvStore::get of LruCacheKvStore: the cached answer, or the store's, which
\* is put in the cache.
LruGet(d, k) ==
    LET hit == LruCacheGet(d.cache, k)
    IN IF hit.found THEN [val |-> hit.val, db |-> [d EXCEPT !.cache = hit.cache]]
       ELSE LET res == KvGet(d.store, k)
            IN [val |-> res, db |-> [d EXCEPT !.cache = LruCachePut(d.cache, d.cap, k, res)]]

\* An update that writes to the store and leaves the cache as it is.
LruUpdateKeepsCache(d, ops) ==
    [d EXCEPT !.store = KvUpdate(d.store, ops)]

\* KvStore::update of LruCacheKvStore: pop the key of every op from the
\* cache, then update the store.
LruUpdate(d, ops) ==
    [d EXCEPT !.cache = SelectSeq(d.cache, LAMBDA e : \A i \in 1..Len(ops) : ops[i].k # e.k),
              !.store = KvUpdate(d.store, ops)]

\* The batches handed to update: up to two Put or Remove over the keys.
LruOps ==
    LET op == {Put(k, v) : k \in LruKeys, v \in LruValues} \cup {Remove(k) : k \in LruKeys}
    IN {<<>>} \cup {<<o>> : o \in op} \cup {<<o, p>> : o \in op, p \in op}

\* A cached store of any capacity over a store that holds some of the keys.
LruInit ==
    /\ db \in {LruCacheKvStoreNew(RamKvStore(m), cap) :
                 cap \in 1..MaxCap,
                 m \in UNION {[S -> LruValues] : S \in SUBSET LruKeys}}
    /\ ret = Idle

\* get(k)
CallLruGet ==
    \E k \in LruKeys :
      \E r \in {LruGet(db, k)} :
        /\ db' = r.db
        /\ ret' = [op |-> "lru_get", arg |-> k, val |-> r.val, pre |-> db]

\* update(ops)
CallLruUpdate ==
    \E ops \in LruOps :
      /\ db' = LruUpdate(db, ops)
      /\ ret' = [op |-> "lru_update", arg |-> ops, err |-> "Ok", pre |-> db]

LruNext ==
    \/ CallLruGet
    \/ CallLruUpdate

LruSpec == LruInit /\ [][LruNext]_vars

(***************************************************************************)
(* Properties.                                                             *)
(***************************************************************************)
\* The call that just returned applied exactly one block on the tip of the
\* chain it started from: apply_block(b) on the store ret.pre.
AppliedOneBlock ==
    /\ ret.op = "extend"
    /\ ret.err = "Ok"
    /\ Len(ret.arg.blocks) = 1
    /\ ret.arg.from = GetHeight(RamKvStore(ret.pre))

\* C1 (rollback inverse law): after apply_block(b) succeeded on a store,
\* rollback_block() succeeds and leaves the store with exactly the pairs it
\* had before apply_block, under either build.
C1_RollbackInverse ==
    AppliedOneBlock =>
        \A overflow_checks \in Builds :
            LET r == RollbackBlock(RamKvStore(db), overflow_checks)
            IN r.err = "Ok" /\ r.db.data = ret.pre

\* C2 (validation errors never mutate the store): when extend,
\* rollback_block, update_states or will_extend returns an error (a panic
\* included), the store holds exactly the pairs it held before the call; when
\* new returns an error, the store is as the failing step found it (as
\* before the call if apply_block failed, with the genesis block applied if
\* update_states failed); and apply_tx of any candidate transaction on the
\* store, when it fails, leaves it as it was.
C2_ErrorsLeaveStore ==
    /\ (ret.op \in {"extend", "rollback_block", "update_states", "will_extend"}
        /\ ret.err # "Ok") => db = ret.pre
    /\ (ret.op = "new" /\ ret.err # "Ok") =>
         LET applied == ApplyBlock(RamKvStore(ret.pre), Genesis.block, TRUE)
         IN db = IF applied.err = "Ok" THEN applied.db.data ELSE ret.pre
    /\ ret.op = "idle" =>
         \A body \in BodyChoices, allow_treasury \in BOOLEAN :
           LET txs == UserTxs(RamKvStore(db), body)
           IN \A i \in 1..Len(txs) :
                LET r == ApplyTx(RamKvStore(db), txs[i], allow_treasury)
                IN r.err # "Ok" => r.db.data = db

\* extend returned an error for a list whose first block is valid on the
\* fork point and whose second block is not.
C2_Witness ==
    /\ ret.op = "extend"
    /\ ret.err # "Ok"
    /\ Len(ret.arg.blocks) = 2
    /\ LET rolled == RollbackTo(RamMirrorKvStore(RamKvStore(ret.pre)), ret.arg.from, TRUE)
       IN /\ rolled.err = "Ok"
          /\ ApplyBlock(rolled.db, ret.arg.blocks[1], TRUE).err = "Ok"
    /\ db = ret.pre

\* C3 (reorg monotonicity): a successful extend either leaves the store as it
\* was or leaves a chain whose get_power() is strictly greater than before
\* the call.
C3_ReorgMonotone ==
    (ret.op = "extend" /\ ret.err = "Ok") =>
        \/ db = ret.pre
        \/ GetPower(RamKvStore(db)).val > GetPower(RamKvStore(ret.pre)).val

\* The sum of the function f over the finite set S.
RECURSIVE SumOver(_, _)
SumOver(S, f) ==
    IF S = {} THEN 0
    ELSE LET e == CHOOSE e \in S : TRUE IN f[e] + SumOver(S \ {e}, f)

\* The value the store m accounts for: the balances of all accounts
\* (Treasury at its default when unwritten) and of all contract accounts.
TotalValue(m) ==
    LET addrs == {k[2] : k \in {k \in DOMAIN m : k[1] = "account"}} \cup {Treasury}
        cids == {k[2] : k \in {k \in DOMAIN m : k[1] = "contract_account"}}
        balance == [a \in addrs |-> GetAccount(RamKvStore(m), a).balance]
        contract_balance == [c \in cids |-> GetContractAccount(RamKvStore(m), c).val.balance]
    IN SumOver(addrs, balance) + SumOver(cids, contract_balance)

\* C4 (conservation of value): in every reachable state the balances of all
\* accounts and contract accounts add up to TOTAL_SUPPLY.
C4_Conservation == TotalValue(db) = TOTAL_SUPPLY

\* C5 (rollback till empty): when rollback_block brings the chain to height
\* 0, the store holds no key at all.
C5_RollbackTillEmpty ==
    (ret.op = "rollback_block" /\ ret.err = "Ok" /\ GetHeight(RamKvStore(db)) = 0)
        => db = EmptyMap

\* The blocks of the store m, in order.
BlocksOf(m) ==
    [i \in 1..GetHeight(RamKvStore(m)) |-> GetBlock(RamKvStore(m), i - 1).val]
\* The store a fresh node reaches from an empty store by applying the blocks.
Replay(blocks) ==
    IF blocks = <<>> THEN RamKvStore(EmptyMap)
    ELSE ApplyBlocks(ApplyBlock(RamKvStore(EmptyMap), Head(blocks), TRUE).db,
                     Tail(blocks)).db
\* Every address that has an account key, and the users of the model.
Addresses(m) ==
    {k[2] : k \in {k \in DOMAIN m : k[1] = "account"}} \cup {Treasury, Alice, Bob, Miner}

\* C6 (accounts are restored): in every reachable state, get_account(addr)
\* is, for every address, the account a fresh node holds after applying the
\* blocks of the chain; so whenever the chain is back at height H over the
\* same blocks, every account is what it was the first time.
C6_AccountsRestored ==
    \A addr \in Addresses(db) :
        GetAccount(RamKvStore(db), addr) = GetAccount(Replay(BlocksOf(db)), addr)

\* rollback_block brought the chain back to a height H >= 1 and changed an
\* account on the way.
C6_Witness ==
    /\ ret.op = "rollback_block"
    /\ ret.err = "Ok"
    /\ GetHeight(RamKvStore(db)) >= 1
    /\ \E addr \in Addresses(ret.pre) :
         GetAccount(RamKvStore(db), addr) # GetAccount(RamKvStore(ret.pre), addr)

\* The chain of the store m is linked: every header above genesis names its
\* parent's hash, its own index and the root of its block's body.
Linked(m) ==
    \A i \in 1..(GetHeight(RamKvStore(m)) - 1) :
        LET h == GetHeader(RamKvStore(m), i)
            parent == GetHeader(RamKvStore(m), i - 1)
            b == GetBlock(RamKvStore(m), i)
        IN /\ IsOk(h) /\ IsOk(parent) /\ IsOk(b)
           /\ h.val.parent_hash = HeaderHash(parent.val)
           /\ h.val.number = i
           /\ h.val.block_root = MerkleRoot(MerkleTree(b.val.body))

RECURSIVE Judged(_, _)
\* What apply_block answered to each block of a list, up to the first one it
\* rejected: the chain the block was applied on, the block, the answer.
Judged(d, blocks) ==
    IF blocks = <<>> THEN <<>>
    ELSE LET r == ApplyBlock(d, Head(blocks), TRUE)
         IN <<[on |-> d, block |-> Head(blocks), err |-> r.err]>>
            \o (IF r.err = "Ok" THEN Judged(r.db, Tail(blocks)) ELSE <<>>)

\* The judgements of the extend call that just returned.
JudgedByExtend ==
    IF ret.op = "extend" /\ ret.arg.from >= 1
       /\ ret.arg.from <= GetHeight(RamKvStore(ret.pre))
    THEN LET rolled == RollbackTo(RamMirrorKvStore(RamKvStore(ret.pre)), ret.arg.from, TRUE)
         IN IF rolled.err = "Ok" THEN Judged(rolled.db, ret.arg.blocks) ELSE <<>>
    ELSE <<>>

Tip(d) == GetHeader(d, GetHeight(d) - 1).val
WrongRoot(j) == j.block.header.block_root # MerkleRoot(MerkleTree(j.block.body))
WrongNumber(j) == j.block.header.number # GetHeight(j.on)
WrongParent(j) == j.block.header.parent_hash # HeaderHash(Tip(j.on))
\* The header passes, at the number it claims, every check that will_extend
\* makes before it looks at the number and the parent hash.
PassesTargetChecks(j) ==
    LET tip == Tip(j.on)
        anchor == GetHeader(j.on, tip.number - (tip.number % DIFFICULTY_CALC_INTERVAL)).val
    IN TargetChecks(j.on, GetHeight(j.on), j.block.header, TRUE, tip,
                    anchor.proof_of_work) = "Ok"

\* C7 as stated (chain linkage): every persisted chain is linked, and a block
\* of an extend list with a wrong root, number or parent hash is rejected
\* with InvalidMerkleRoot, InvalidBlockNumber or InvalidParentHash (one of
\* those it deserves), wherever it sits in the list.
C7_LinkageAsStated ==
    /\ Linked(db)
    /\ \A k \in 1..Len(JudgedByExtend) :
         LET j == JudgedByExtend[k]
             deserved == (IF WrongRoot(j) THEN {"InvalidMerkleRoot"} ELSE {})
                         \cup (IF WrongNumber(j) THEN {"InvalidBlockNumber"} ELSE {})
                         \cup (IF WrongParent(j) THEN {"InvalidParentHash"} ELSE {})
         IN deserved # {} => j.err \in deserved

\* C7 amended: every persisted chain is linked, and a block of an extend
\* list with a wrong root, number or parent hash is rejected, wherever it
\* sits: with InvalidMerkleRoot if the root is wrong; otherwise, if its header
\* passes the target, key, timestamp and PoW checks at the number it claims,
\* with InvalidBlockNumber if the number is wrong and InvalidParentHash if
\* only the parent is; otherwise with the error of the first of those checks
\* that fails.
C7_Linkage ==
    /\ Linked(db)
    /\ \A k \in 1..Len(JudgedByExtend) :
         LET j == JudgedByExtend[k]
         IN (WrongRoot(j) \/ WrongNumber(j) \/ WrongParent(j)) =>
              /\ j.err # "Ok"
              /\ (k = Len(JudgedByExtend) /\ ret.err = j.err /\ db = ret.pre)
              /\ j.err = IF WrongRoot(j) THEN "InvalidMerkleRoot"
                         ELSE IF PassesTargetChecks(j)
                         THEN (IF WrongNumber(j) THEN "InvalidBlockNumber"
                               ELSE "InvalidParentHash")
                         ELSE j.err
              /\ (~WrongRoot(j) /\ ~PassesTargetChecks(j)) =>
                   j.err \in {"DifficultyTargetWrong", "BlockNotFound",
                              "InvalidTimestamp", "DifficultyTargetUnmet"}

\* extend rejected the second block of a list for its number, after it had
\* accepted the first on the overlay.
C7_Witness ==
    /\ ret.op = "extend"
    /\ ret.err = "InvalidBlockNumber"
    /\ Len(JudgedByExtend) = 2
    /\ WrongNumber(JudgedByExtend[2])
    /\ Linked(db)

\* C8 (store index consistency): in every reachable state of height N, the
\* keys block_i, header_i, merkle_i, rollback_i, power_i and
\* contract_updates_i exist for every i < N, block_i.header = header_i,
\* merkle_i is the merkle tree of block_i.body, and get_block(i) and
\* get_header(i) succeed.
C8_IndexConsistent ==
    \A i \in 0..(GetHeight(RamKvStore(db)) - 1) :
        /\ {BlockKey(i), HeaderKey(i), MerkleKey(i), RollbackKey(i), PowerKey(i),
            ContractUpdatesKey(i)} \subseteq DOMAIN db
        /\ db[BlockKey(i)].header = db[HeaderKey(i)]
        /\ db[MerkleKey(i)] = MerkleTree(db[BlockKey(i)].body)
        /\ IsOk(GetBlock(RamKvStore(db), i))
        /\ IsOk(GetHeader(RamKvStore(db), i))

\* extend replaced blocks of the chain (a reorg) and left a chain of height 3.
C8_Witness ==
    /\ ret.op = "extend"
    /\ ret.err = "Ok"
    /\ ret.arg.from < GetHeight(RamKvStore(ret.pre))
    /\ Len(ret.arg.blocks) >= 1
    /\ GetHeight(RamKvStore(db)) = 3
    /\ db # ret.pre

\* C9 (cumulative power): in every reachable state power_i = power_{i-1} +
\* work(header_i) for every i < height (power_{-1} = 0), get_power() is
\* power_{height-1} (0 at height 0), and a successful rollback_block leaves
\* get_power() at what it was before the block it removed was applied.
C9_CumulativePower ==
    LET height == GetHeight(RamKvStore(db))
    IN /\ \A i \in 0..(height - 1) :
            db[PowerKey(i)] = (IF i = 0 THEN 0 ELSE db[PowerKey(i - 1)])
                              + HeaderPower(db[HeaderKey(i)])
       /\ GetPower(RamKvStore(db)) = Ok(IF height = 0 THEN 0 ELSE db[PowerKey(height - 1)])
       /\ (ret.op = "rollback_block" /\ ret.err = "Ok") =>
            GetPower(RamKvStore(db)).val
              = GetPower(RamKvStore(ret.pre)).val - HeaderPower(Tip(RamKvStore(ret.pre)))

\* rollback_block removed a block above genesis.
C9_Witness ==
    /\ ret.op = "rollback_block"
    /\ ret.err = "Ok"
    /\ GetHeight(RamKvStore(ret.pre)) >= 2
    /\ GetPower(RamKvStore(db)).val < GetPower(RamKvStore(ret.pre)).val

\* The power of the candidate chain of a will_extend call: power_{from-1}
\* and the work of the headers.
CandidatePower ==
    ret.pre[PowerKey(ret.arg.from - 1)]
      + SumSeq([i \in 1..Len(ret.arg.headers) |-> HeaderPower(ret.arg.headers[i])])

\* C10 (will_extend): will_extend leaves the store as it is, and when it
\* returns Ok (every header check passed) its value is true iff
\* power_{from-1} + the work of the headers is strictly greater than
\* get_power().
C10_WillExtend ==
    ret.op = "will_extend" =>
        /\ db = ret.pre
        /\ ret.err = "Ok" =>
             (ret.val <=> CandidatePower > GetPower(RamKvStore(ret.pre)).val)

\* will_extend answered false to a candidate chain of headers whose power
\* equals the current power.
C10_Witness ==
    /\ ret.op = "will_extend"
    /\ ret.err = "Ok"
    /\ Len(ret.arg.headers) >= 1
    /\ CandidatePower = GetPower(RamKvStore(ret.pre)).val
    /\ ret.val = FALSE

\* will_extend answered true to a fork that replaces blocks of the chain.
C10_Wins ==
    /\ ret.op = "will_extend"
    /\ ret.err = "Ok"
    /\ ret.arg.from < GetHeight(RamKvStore(ret.pre))
    /\ ret.val = TRUE

\* C11 (from out of range): extend and will_extend called with from = 0
\* return ExtendFromGenesis, and called with from > get_height() return
\* ExtendFromFuture, whatever the blocks or headers are, and the store is
\* left as it was.
C11_FromOutOfRange ==
    ret.op \in {"extend", "will_extend"} =>
        /\ ret.arg.from = 0 => (ret.err = "ExtendFromGenesis" /\ db = ret.pre)
        /\ ret.arg.from > GetHeight(RamKvStore(ret.pre)) =>
              (ret.err = "ExtendFromFuture" /\ db = ret.pre)
        /\ ret.err = "ExtendFromGenesis" => ret.arg.from = 0
        /\ ret.err = "ExtendFromFuture" => ret.arg.from > GetHeight(RamKvStore(ret.pre))

\* extend from 0 was handed a block and refused it with ExtendFromGenesis.
C11_Witness ==
    /\ ret.op = "extend"
    /\ ret.arg.from = 0
    /\ Len(ret.arg.blocks) = 1
    /\ ret.err = "ExtendFromGenesis"

\* C12 (genesis once): new applies the genesis block exactly when the store
\* has height 0, which gives a store of height 1 whose block 0 is the genesis
\* block, and leaves a store of height > 0 as it is; an extend call on a
\* chain that starts with the genesis block leaves a chain of height >= 1
\* that starts with the genesis block.
C12_GenesisOnce ==
    /\ (ret.op = "new" /\ GetHeight(RamKvStore(ret.pre)) = 0) =>
          /\ GetHeight(RamKvStore(db)) = 1
          /\ GetBlock(RamKvStore(db), 0) = Ok(GenesisBlock)
    /\ (ret.op = "new" /\ GetHeight(RamKvStore(ret.pre)) > 0) =>
          (ret.err = "Ok" /\ db = ret.pre)
    /\ (/\ ret.op = "extend"
        /\ GetHeight(RamKvStore(ret.pre)) >= 1
        /\ GetBlock(RamKvStore(ret.pre), 0) = Ok(GenesisBlock)) =>
          /\ GetHeight(RamKvStore(db)) >= 1
          /\ GetBlock(RamKvStore(db), 0) = Ok(GenesisBlock)
    /\ GetHeight(RamKvStore(db)) >= 1 => GetBlock(RamKvStore(db), 0) = Ok(GenesisBlock)

\* new was called on a store rolled back to height 0 and installed the
\* genesis block.
C12_Witness ==
    /\ ret.op = "new"
    /\ GetHeight(RamKvStore(ret.pre)) = 0
    /\ GetBlock(RamKvStore(db), 0) = Ok(GenesisBlock)

\* extend replaced every block above the genesis block of a chain of
\* height 3, and the genesis block stayed.
C12_WitnessReorg ==
    /\ ret.op = "extend"
    /\ ret.err = "Ok"
    /\ ret.arg.from = 1
    /\ GetHeight(RamKvStore(ret.pre)) = 3
    /\ GetBlock(RamKvStore(db), 0) = Ok(GenesisBlock)

\* The transactions apply_tx is tried on in a store: those of the bodies the
\* callers build, and sends of every source, nonce around the expected one,
\* destination, amount and fee, signed by the source or not signed.
ProbeTxs(d) ==
    UNION {{UserTxs(d, body)[i] : i \in 1..Len(UserTxs(d, body))} : body \in BodyChoices}
    \cup UNION {{SignedTx(src, n, RegularSend(dst, amount), fee),
                 Tx(src, n, RegularSend(dst, amount), fee, Unsigned)} :
                <<src, n, dst, amount, fee>> \in
                   {Treasury, Alice, Bob} \X (0..(MaxHeight + 2)) \X {Alice, Bob}
                      \X (0..2) \X (0..1)}

\* The number of transactions of the persisted blocks whose source is a.
TxsFrom(m, a) ==
    LET blocks == BlocksOf(m)
    IN SumSeq([i \in 1..Len(blocks) |->
                 Cardinality({j \in 1..Len(blocks[i].body) : blocks[i].body[j].src = a})])

\* C13 (nonce discipline): apply_tx accepts a transaction only when its nonce
\* is the nonce of its source plus one, and answers a transaction that passes
\* the treasury and signature checks with another nonce by
\* InvalidTransactionNonce; an applied transaction raises the nonce of its
\* source by exactly one and changes no other nonce; in every persisted chain
\* the nonce of an address is the number of transactions of the chain's
\* blocks that come from it, and appending blocks lowers no nonce.
C13_NonceDiscipline ==
    /\ ret.op = "idle" =>
       \A tx \in ProbeTxs(RamKvStore(db)), allow_treasury \in BOOLEAN :
         LET d == RamKvStore(db)
             r == ApplyTx(d, tx, allow_treasury)
             expected == GetAccount(d, tx.src).nonce + 1
         IN /\ r.err = "Ok" =>
                 /\ tx.nonce = expected
                 /\ GetAccount(r.db, tx.src).nonce = expected
                 /\ \A a \in Addresses(db) \ {tx.src} :
                       GetAccount(r.db, a).nonce = GetAccount(d, a).nonce
            /\ (/\ tx.nonce # expected
                /\ tx.src = Treasury => allow_treasury
                /\ VerifySignature(tx)) => r.err = "InvalidTransactionNonce"
            /\ r.err = "InvalidTransactionNonce" => tx.nonce # expected
    /\ ret.op = "idle" =>
         \A a \in Addresses(db) : GetAccount(RamKvStore(db), a).nonce = TxsFrom(db, a)
    /\ (ret.op = "extend" /\ ret.arg.from = GetHeight(RamKvStore(ret.pre))) =>
         \A a \in Addresses(db) :
           GetAccount(RamKvStore(db), a).nonce >= GetAccount(RamKvStore(ret.pre), a).nonce

\* Two blocks were appended in one call, each with a transaction of Alice,
\* and a block whose transaction skips a nonce was refused.
C13_Witness ==
    /\ ret.op = "extend"
    /\ ret.err = "Ok"
    /\ ret.arg.from = GetHeight(RamKvStore(ret.pre))
    /\ GetAccount(RamKvStore(db), Alice).nonce = GetAccount(RamKvStore(ret.pre), Alice).nonce + 2

\* A block whose user transaction skips a nonce was refused.
C13_WitnessRefused ==
    /\ ret.op = "extend"
    /\ ret.err = "InvalidTransactionNonce"

\* The drafted block with the nonce a miner finds for it on the chain d.
Mined(d, blk) ==
    [blk EXCEPT !.header.proof_of_work.nonce = <<PowKey(d, blk.header.number).val>>]

\* The entries of a mempool whose transaction is not in the set given.
Without(mempool, txs) ==
    LET keep == {i \in 1..Len(mempool) : mempool[i].tx \notin txs}
        RECURSIVE pick(_)
        pick(n) == IF n = 0 THEN <<>>
                   ELSE pick(n - 1) \o (IF n \in keep THEN <<mempool[n]>> ELSE <<>>)
    IN pick(Len(mempool))

\* C14 (duplicates): apply_tx answers a transaction the chain has applied
\* with InvalidTransactionNonce; draft_block leaves such a transaction of its
\* mempool out of the body and returns what it returns for the mempool
\* without it, a block that the chain accepts once mined; a block appended
\* with such a transaction in it is refused and leaves every balance as it
\* was.
C14_DuplicateRejected ==
    /\ ret.op = "idle" =>
         \A tx \in AppliedTxs(RamKvStore(db)) :
           ApplyTx(RamKvStore(db), tx, FALSE).err = "InvalidTransactionNonce"
    /\ ret.op = "draft_block" =>
         LET d == RamKvStore(ret.pre)
             applied == AppliedTxs(d)
             rest == Without(ret.arg.mempool, applied)
         IN /\ ret.err = "Ok" =>
                 /\ \A i \in 1..Len(ret.val.block.body) :
                       ret.val.block.body[i] \notin applied
                 /\ ApplyBlock(d, Mined(d, ret.val.block), TRUE).err = "Ok"
            /\ rest # ret.arg.mempool =>
                 LET r == DraftBlock(d, ret.arg.timestamp, rest, Miner,
                                     ret.arg.overflow_checks)
                 IN /\ r.err = ret.err
                    /\ r.err = "Ok" => r.val = ret.val
    /\ (/\ ret.op = "extend"
        /\ ret.arg.from = GetHeight(RamKvStore(ret.pre))
        /\ \E k \in 1..Len(ret.arg.blocks) :
             \E i \in 2..Len(ret.arg.blocks[k].body) :
               ret.arg.blocks[k].body[i] \in AppliedTxs(RamKvStore(ret.pre))) =>
          /\ ret.err = "InvalidTransactionNonce"
          /\ \A a \in Addresses(ret.pre) \cup Addresses(db) :
                GetAccount(RamKvStore(db), a).balance
                  = GetAccount(RamKvStore(ret.pre), a).balance

\* draft_block was given an applied transaction before a new one and
\* drafted a block with the new one only.
C14_Witness ==
    /\ ret.op = "draft_block"
    /\ ret.err = "Ok"
    /\ Len(ret.arg.mempool) = 2
    /\ ret.arg.mempool[1].tx \in AppliedTxs(RamKvStore(ret.pre))
    /\ ret.val.block.body[2] = ret.arg.mempool[2].tx

\* A block with an applied transaction in it was handed to extend and
\* refused.
C14_WitnessBlock ==
    /\ ret.op = "extend"
    /\ ret.arg.from = GetHeight(RamKvStore(ret.pre))
    /\ Len(ret.arg.blocks) = 1
    /\ Len(ret.arg.blocks[1].body) = 2
    /\ ret.arg.blocks[1].body[2] \in AppliedTxs(RamKvStore(ret.pre))
    /\ ret.err = "InvalidTransactionNonce"

\* C15 (self-send): a signed RegularSend from an address to itself with
\* amount A and fee F and the next nonce, on a balance with balance >= F,
\* balance < A + F and A <= balance, is applied and lowers the balance by
\* exactly F; with balance < F it fails with BalanceInsufficient.
C15_SelfSendFeeOnly ==
    ret.op = "idle" =>
      \A tx \in ProbeTxs(RamKvStore(db)) :
        LET d == RamKvStore(db)
            acc == GetAccount(d, tx.src)
            r == ApplyTx(d, tx, FALSE)
        IN (/\ tx.src # Treasury
            /\ tx.data.type = "RegularSend"
            /\ tx.data.dst = tx.src
            /\ VerifySignature(tx)
            /\ tx.nonce = acc.nonce + 1) =>
             /\ (/\ acc.balance >= tx.fee
                 /\ acc.balance < tx.data.amount + tx.fee
                 /\ tx.data.amount <= acc.balance) =>
                   /\ r.err = "Ok"
                   /\ GetAccount(r.db, tx.src).balance = acc.balance - tx.fee
             /\ acc.balance < tx.fee => r.err = "BalanceInsufficient"

\* A signed RegularSend with the next nonce from a user to another address.
IsSendToOther(d, tx) ==
    /\ tx.src # Treasury
    /\ tx.data.type = "RegularSend"
    /\ tx.data.dst # tx.src
    /\ VerifySignature(tx)
    /\ tx.nonce = GetAccount(d, tx.src).nonce + 1

C16_WitnessApplied ==
    /\ AppliedOneBlock
    /\ Len(ret.arg.blocks[1].body) = 2
    /\ IsSendToOther(RamKvStore(ret.pre), ret.arg.blocks[1].body[2])
    /\ GetAccount(RamKvStore(db), Alice).balance = GetAccount(RamKvStore(ret.pre), Alice).balance - 2
    /\ GetAccount(RamKvStore(db), Bob).balance = GetAccount(RamKvStore(ret.pre), Bob).balance + 1

\* The chain the k-th block of an extend call is applied to.
ChainBefore(k) ==
    ApplyBlocks(RollbackTo(RamMirrorKvStore(RamKvStore(ret.pre)), ret.arg.from, TRUE).db,
                SubSeq(ret.arg.blocks, 1, k - 1)).db

\* A reward transaction as apply_block wants it on the chain d.
IsReward(d, tx) ==
    /\ tx.src = Treasury
    /\ tx.fee = 0
    /\ tx.sig = Unsigned
    /\ tx.data.type = "RegularSend"
    /\ tx.data.amount = GetAccount(d, Treasury).balance \div REWARD_RATIO

\* What the user transactions of a body send to the Treasury.
SentToTreasury(body) ==
    SumSeq([i \in 1..(Len(body) - 1) |->
              IF body[i + 1].data.type = "RegularSend" /\ body[i + 1].data.dst = Treasury
              THEN body[i + 1].data.amount ELSE 0])

C17_WitnessRefused ==
    /\ ret.op = "extend"
    /\ ret.err = "InvalidMinerReward"
    /\ Len(ret.arg.blocks) = 1
    /\ Head(ret.arg.blocks[1].body).src = Treasury
    /\ Head(ret.arg.blocks[1].body).data.type = "RegularSend"
    /\ Head(ret.arg.blocks[1].body).data.amount
         = GetAccount(RamKvStore(ret.pre), Treasury).balance \div REWARD_RATIO + 1

\* C18 (treasury): above the genesis block the only transaction of a
\* persisted block that spends from the Treasury is the reward at position
\* 0; apply_tx without allow_treasury answers every transaction from the
\* Treasury with IllegalTreasuryAccess, and a block that carries one after the
\* reward is refused with that error; the user transactions of a drafted
\* block are never from the Treasury and always correctly signed.
C18_TreasuryProtected ==
    /\ ret.op = "idle" =>
         /\ \A i \in 2..GetHeight(RamKvStore(db)) :
               \A j \in 2..Len(BlocksOf(db)[i].body) :
                 BlocksOf(db)[i].body[j].src # Treasury
         /\ \A tx \in ProbeTxs(RamKvStore(db)) :
               LET r == ApplyTx(RamKvStore(db), tx, FALSE)
               IN /\ tx.src = Treasury => (r.err = "IllegalTreasuryAccess" /\ r.db.data = db)
                  /\ r.err = "IllegalTreasuryAccess" => tx.src = Treasury
    /\ (/\ ret.op = "extend"
        /\ Len(ret.arg.blocks) = 1
        /\ ret.arg.from = GetHeight(RamKvStore(ret.pre))
        /\ ret.arg.from >= 1) =>
         LET d == RamKvStore(ret.pre)
             block == ret.arg.blocks[1]
         IN (/\ MerkleRoot(MerkleTree(block.body)) = block.header.block_root
             /\ IsOk(WillExtend(d, ret.arg.from, <<block.header>>, TRUE))
             /\ Len(block.body) = 2
             /\ IsReward(d, block.body[1])
             /\ block.body[1].nonce = GetAccount(d, Treasury).nonce + 1
             /\ block.body[2].src = Treasury) =>
              (ret.err = "IllegalTreasuryAccess" /\ db = ret.pre)
    /\ (ret.op = "draft_block" /\ ret.err = "Ok") =>
         \A j \in 2..Len(ret.val.block.body) :
           /\ ret.val.block.body[j].src # Treasury
           /\ ret.val.block.body[j].sig # Unsigned
           /\ VerifySignature(ret.val.block.body[j])

\* draft_block was given a transaction from the Treasury before a send of
\* Alice and drafted a block with the send only.
C18_Witness ==
    /\ ret.op = "draft_block"
    /\ ret.err = "Ok"
    /\ Len(ret.arg.mempool) = 2
    /\ ret.arg.mempool[1].tx.src = Treasury
    /\ Len(ret.val.block.body) = 2
    /\ ret.val.block.body[2] = ret.arg.mempool[2].tx

\* A block with a second transaction from the Treasury was refused.
C18_WitnessRefused ==
    /\ ret.op = "extend"
    /\ ret.err = "IllegalTreasuryAccess"
    /\ Len(ret.arg.blocks[1].body) = 2
    /\ ret.arg.blocks[1].body[2].src = Treasury

\* draft_block was given an unsigned and a forged transaction and left
\* them out.
C18_WitnessUnsigned ==
    /\ ret.op = "draft_block"
    /\ ret.err = "Ok"
    /\ Len(ret.arg.mempool) = 1
    /\ ~VerifySignature(ret.arg.mempool[1].tx)
    /\ ret.arg.mempool[1].tx.sig # Unsigned
    /\ Len(ret.val.block.body) = 1

\* MTP(i) of the chain in the store m: the median of the timestamps of the
\* headers max(0, i - (MEDIAN_TIMESTAMP_COUNT - 1)) .. i.
Mtp(m, i) ==
    LET lo == IF i >= MEDIAN_TIMESTAMP_COUNT - 1 THEN i - (MEDIAN_TIMESTAMP_COUNT - 1) ELSE 0
    IN Median([k \in 1..(i - lo + 1) |->
                 GetHeader(RamKvStore(m), lo + k - 1).val.proof_of_work.timestamp])

\* The block with another timestamp.
AtTime(block, ts) == [block EXCEPT !.header.proof_of_work.timestamp = ts]

\* C19 (median time past): the header persisted at every index i + 1 >= 1
\* has a timestamp >= MTP(i) of its chain; a block that is accepted with the
\* timestamp MTP(i) is refused with InvalidTimestamp when its timestamp is
\* smaller, and InvalidTimestamp is returned for no other block; draft_block
\* returns InvalidTimestamp exactly for a timestamp below MTP of the tip
\* (when it gets as far as applying the block it drafts).
C19_MedianTimePast ==
    /\ \A i \in 0..(GetHeight(RamKvStore(db)) - 2) :
         GetHeader(RamKvStore(db), i + 1).val.proof_of_work.timestamp >= Mtp(db, i)
    /\ (/\ ret.op = "extend"
        /\ Len(ret.arg.blocks) = 1
        /\ ret.arg.from = GetHeight(RamKvStore(ret.pre))
        /\ ret.arg.from >= 1) =>
         LET d == RamKvStore(ret.pre)
             block == ret.arg.blocks[1]
             mtp == Mtp(ret.pre, ret.arg.from - 1)
         IN /\ (/\ block.header.proof_of_work.timestamp < mtp
                /\ ApplyBlock(d, AtTime(block, mtp), TRUE).err = "Ok") =>
                  (ret.err = "InvalidTimestamp" /\ db = ret.pre)
            /\ (/\ block.header.proof_of_work.timestamp = mtp
                /\ ApplyBlock(d, AtTime(block, MaxTimestamp), TRUE).err = "Ok") =>
                  ret.err = "Ok"
            /\ ret.err = "InvalidTimestamp" => block.header.proof_of_work.timestamp < mtp
    /\ (/\ ret.op = "draft_block"
        /\ GetHeight(RamKvStore(ret.pre)) >= 1
        /\ ret.err \notin {"StatesOutdated", "FullStateNotFound"}) =>
         (ret.err = "InvalidTimestamp"
            <=> ret.arg.timestamp < Mtp(ret.pre, GetHeight(RamKvStore(ret.pre)) - 1))

\* A block with a timestamp below the median of the last headers was
\* refused.
C19_Witness ==
    /\ ret.op = "extend"
    /\ ret.err = "InvalidTimestamp"
    /\ Len(ret.arg.blocks) = 1
    /\ ret.arg.from = GetHeight(RamKvStore(ret.pre))
    /\ ret.arg.blocks[1].header.proof_of_work.timestamp
         < Mtp(ret.pre, ret.arg.from - 1)

\* A block whose timestamp is the median, above the timestamp of the genesis
\* block, was appended.
C19_WitnessEqual ==
    /\ AppliedOneBlock
    /\ ret.arg.blocks[1].header.proof_of_work.timestamp = Mtp(ret.pre, ret.arg.from - 1)
    /\ Mtp(ret.pre, ret.arg.from - 1) > 0

\* draft_block was asked for a timestamp below the median and refused.
C19_WitnessDraft ==
    /\ ret.op = "draft_block"
    /\ ret.err = "InvalidTimestamp"

\* The header number n of the chain a call is about: persisted below from,
\* handed in from there on.
HeaderAt(m, from, headers, n) ==
    IF n < from THEN GetHeader(RamKvStore(m), n).val ELSE headers[n - from + 1]

\* The target the header number n >= 1 of that chain is due.
DueTarget(m, from, headers, n) ==
    IF n % DIFFICULTY_CALC_INTERVAL # 0
    THEN HeaderAt(m, from, headers, n - 1).proof_of_work.target
    ELSE CalcPowDifficulty(HeaderAt(m, from, headers, n - 1).proof_of_work,
                           HeaderAt(m, from, headers,
                                    n - DIFFICULTY_CALC_INTERVAL).proof_of_work)

\* The headers with the target of the k-th one replaced.
Retargeted(headers, k, target) ==
    [headers EXCEPT ![k].proof_of_work.target = target]

\* C20 (difficulty targets): every header accepted at a number n >= 1 (one
\* persisted by apply_block or extend, one of a list will_extend accepts)
\* carries the target of header n - 1 when n is not a multiple of
\* DIFFICULTY_CALC_INTERVAL and calc_pow_difficulty(header n - 1, header
\* n - INTERVAL) when it is; will_extend answers a list it accepts with
\* DifficultyTargetWrong once the target of any one of its headers is
\* changed; draft_block never fails with DifficultyTargetWrong, and the
\* header it drafts carries the due target.
C20_DifficultyTargets ==
    /\ \A n \in 1..(GetHeight(RamKvStore(db)) - 1) :
         GetHeader(RamKvStore(db), n).val.proof_of_work.target
           = DueTarget(db, GetHeight(RamKvStore(db)), <<>>, n)
    /\ (ret.op = "will_extend" /\ ret.err = "Ok") =>
         \A k \in 1..Len(ret.arg.headers) :
           /\ ret.arg.headers[k].proof_of_work.target
                = DueTarget(ret.pre, ret.arg.from, ret.arg.headers, ret.arg.from + k - 1)
           /\ \A target \in {0, ret.arg.headers[k].proof_of_work.target + 1,
                              2 * ret.arg.headers[k].proof_of_work.target + 2}
                            \ {ret.arg.headers[k].proof_of_work.target} :
                 WillExtend(RamKvStore(ret.pre), ret.arg.from,
                            Retargeted(ret.arg.headers, k, target),
                            ret.arg.check_pow).err = "DifficultyTargetWrong"
    /\ ret.op = "draft_block" =>
         /\ ret.err # "DifficultyTargetWrong"
         /\ ret.err = "Ok" =>
              ret.val.block.header.proof_of_work.target
                = DueTarget(ret.pre, GetHeight(RamKvStore(ret.pre)), <<ret.val.block.header>>,
                            GetHeight(RamKvStore(ret.pre)))
    /\ (ret.op = "idle" /\ GetHeight(RamKvStore(db)) >= 1) =>
         /\ IsOk(NextDifficulty(RamKvStore(db)))
         /\ NextDifficulty(RamKvStore(db)).val
              = DueTarget(db, GetHeight(RamKvStore(db)), <<>>, GetHeight(RamKvStore(db)))

\* will_extend accepted a header at a number where the target is
\* recalculated and differs from the one before.
C20_Witness ==
    /\ ret.op = "will_extend"
    /\ ret.err = "Ok"
    /\ \E k \in 1..Len(ret.arg.headers) :
         /\ ret.arg.headers[k].number % DIFFICULTY_CALC_INTERVAL = 0
         /\ ret.arg.headers[k].proof_of_work.target
              # HeaderAt(ret.pre, ret.arg.from, ret.arg.headers,
                         ret.arg.headers[k].number - 1).proof_of_work.target

\* draft_block drafted a block at a number where the target is recalculated.
C20_WitnessDraft ==
    /\ ret.op = "draft_block"
    /\ ret.err = "Ok"
    /\ ret.val.block.header.number % DIFFICULTY_CALC_INTERVAL = 0
    /\ ret.val.block.header.proof_of_work.target
         # GetHeader(RamKvStore(ret.pre), ret.val.block.header.number - 1).val.proof_of_work.target

\* The header whose hash seeds the proof of work of block i >= DELAY.
KeyReference(i) ==
    ((i - POW_KEY_CHANGE_DELAY) \div POW_KEY_CHANGE_INTERVAL) * POW_KEY_CHANGE_INTERVAL

\* C21 (key rotation): pow_key(i) is POW_BASE_KEY for i < POW_KEY_CHANGE_DELAY
\* and otherwise the hash of the header number
\* floor((i - DELAY) / INTERVAL) * INTERVAL; that header lies below i, so the
\* key of block i is the same on the chain cut back to height i, it is
\* there when block i is validated on a chain of height i, and every
\* persisted header above the genesis block meets its target under it.
C21_PowKeyRotation ==
    LET d == RamKvStore(db)
        height == GetHeight(d)
    IN /\ ret.op = "idle" =>
            \A i \in 0..(MaxHeight + 2) :
              /\ i < POW_KEY_CHANGE_DELAY => PowKey(d, i) = Ok(POW_BASE_KEY)
              /\ (i >= POW_KEY_CHANGE_DELAY /\ KeyReference(i) < height) =>
                    /\ KeyReference(i) < i
                    /\ PowKey(d, i) = Ok(HeaderHash(GetHeader(d, KeyReference(i)).val))
              /\ (1 <= i /\ i <= height) =>
                    /\ IsOk(PowKey(d, i))
                    /\ PowKey(RollbackTo(RamMirrorKvStore(d), i, TRUE).db, i) = PowKey(d, i)
       /\ \A n \in 1..(height - 1) :
            MeetsTarget(GetHeader(d, n).val, PowKey(d, n).val)

\* A block at a number past the delay was appended: its proof of work is
\* seeded by the hash of a header, not by the base key.
C21_Witness ==
    /\ AppliedOneBlock
    /\ ret.arg.blocks[1].header.number >= POW_KEY_CHANGE_DELAY
    /\ PowKey(RamKvStore(db), ret.arg.blocks[1].header.number)
         = Ok(HeaderHash(GetHeader(RamKvStore(db), 0).val))
    /\ MeetsTarget(ret.arg.blocks[1].header, HeaderHash(GetHeader(RamKvStore(db), 0).val))

\* C22 (drafts): draft_block leaves the store as it is, and a block it
\* returns has the number get_height(), the hash of the tip as parent, the
\* target next_difficulty(), the merkle root of its body and, first in the
\* body, the reward to the wallet given with the Treasury's next nonce;
\* apply_block(block, check_pow = false) accepts it on the chain it was
\* drafted from and raises the height by exactly 1.
C22_DraftAccepted ==
    ret.op = "draft_block" =>
      /\ db = ret.pre
      /\ ret.err = "Ok" =>
           LET d == RamKvStore(ret.pre)
               height == GetHeight(d)
               blk == ret.val.block
               applied == ApplyBlock(d, blk, FALSE)
           IN /\ height >= 1
              /\ blk.header.number = height
              /\ blk.header.parent_hash = HeaderHash(GetHeader(d, height - 1).val)
              /\ Ok(blk.header.proof_of_work.target) = NextDifficulty(d)
              /\ blk.header.proof_of_work.timestamp = ret.arg.timestamp
              /\ blk.header.block_root = MerkleRoot(MerkleTree(blk.body))
              /\ blk.body[1] = Tx(Treasury, GetAccount(d, Treasury).nonce + 1,
                                  RegularSend(Miner, NextReward(d)), 0, Unsigned)
              /\ applied.err = "Ok"
              /\ GetHeight(applied.db) = height + 1
              /\ GetBlock(applied.db, height) = Ok(blk)

\* draft_block returned a block with a contract update of the mempool in it.
C22_Witness ==
    /\ ret.op = "draft_block"
    /\ ret.err = "Ok"
    /\ Len(ret.val.block.body) = 2
    /\ ret.val.block.body[2].data.type = "Update"
    /\ GetHeight(RamKvStore(ret.pre)) >= 2

\* The size select_transactions counts for an entry of the mempool.
SizeOf(e) ==
    TxSize(e.tx) + (IF IsSome(e.state_delta) THEN DeltaSize(Unwrap(e.state_delta)) ELSE 0)

\* A mempool of at most two entries in ascending nonce order.
InNonceOrder(mempool) ==
    IF Len(mempool) = 2 /\ mempool[2].tx.nonce < mempool[1].tx.nonce
    THEN <<mempool[2], mempool[1]>> ELSE mempool

\* The entries of a mempool of at most two that the claim has included: in
\* nonce order, each one that fits in MAX_DELTA_SIZE with those included
\* before it and applies on the chain with their effects.
Included(d, mempool) ==
    LET s == InNonceOrder(mempool)
        first == IF Len(s) >= 1 THEN ApplyTx(RamMirrorKvStore(d), s[1].tx, FALSE) ELSE TxFail(d, "")
        take1 == Len(s) >= 1 /\ SizeOf(s[1]) <= MAX_DELTA_SIZE /\ first.err = "Ok"
        overlay == IF take1 THEN first.db ELSE RamMirrorKvStore(d)
        sz == IF take1 THEN SizeOf(s[1]) ELSE 0
        take2 == /\ Len(s) = 2
                 /\ sz + SizeOf(s[2]) <= MAX_DELTA_SIZE
                 /\ ApplyTx(overlay, s[2].tx, FALSE).err = "Ok"
    IN (IF take1 THEN <<s[1]>> ELSE <<>>) \o (IF take2 THEN <<s[2]>> ELSE <<>>)

\* C23 (mempool selection): select_transactions takes the transactions of
\* the mempool in ascending nonce order, each one exactly when it applies on
\* the overlay with the effects of those taken before and the sizes of the
\* transactions and deltas taken stay within MAX_DELTA_SIZE; the body of a
\* drafted block is the reward and then exactly these; two transactions of
\* one sender with the nonces n + 1 and n + 2 that fit are both taken when
\* the mempool holds them in the reverse order.
C23_MempoolSelection ==
    /\ ret.op = "idle" =>
         \A mempool \in Mempools(db) :
           /\ Len(mempool) <= 2
           /\ SelectTransactions(RamKvStore(db), mempool)
                = Included(RamKvStore(db), mempool)
    /\ (ret.op = "draft_block" /\ ret.err = "Ok") =>
         LET taken == Included(RamKvStore(ret.pre), ret.arg.mempool)
             body == ret.val.block.body
         IN /\ Tail(body) = [i \in 1..Len(taken) |-> taken[i].tx]
            /\ \A i \in 2..(Len(body) - 1) : body[i].nonce <= body[i + 1].nonce
            /\ SumSeq([i \in 1..Len(taken) |-> SizeOf(taken[i])]) <= MAX_DELTA_SIZE
            /\ (/\ Len(ret.arg.mempool) = 2
                /\ ret.arg.mempool[1].tx.src = ret.arg.mempool[2].tx.src
                /\ ret.arg.mempool[2].tx.nonce
                     = GetAccount(RamKvStore(ret.pre), ret.arg.mempool[2].tx.src).nonce + 1
                /\ ret.arg.mempool[1].tx.nonce = ret.arg.mempool[2].tx.nonce + 1
                /\ ApplyTx(RamKvStore(ret.pre), ret.arg.mempool[2].tx, FALSE).err = "Ok"
                /\ ApplyTx(ApplyTx(RamKvStore(ret.pre), ret.arg.mempool[2].tx, FALSE).db,
                           ret.arg.mempool[1].tx, FALSE).err = "Ok"
                /\ SizeOf(ret.arg.mempool[1]) + SizeOf(ret.arg.mempool[2]) <= MAX_DELTA_SIZE) =>
                 body = <<body[1], ret.arg.mempool[2].tx, ret.arg.mempool[1].tx>>

\* draft_block was given two sends of Alice, the later nonce first, and
\* drafted a block with both, the earlier nonce first.
C23_Witness ==
    /\ ret.op = "draft_block"
    /\ ret.err = "Ok"
    /\ Len(ret.arg.mempool) = 2
    /\ ret.arg.mempool[1].tx.nonce = ret.arg.mempool[2].tx.nonce + 1
    /\ ret.val.block.body
         = <<ret.val.block.body[1], ret.arg.mempool[2].tx, ret.arg.mempool[1].tx>>

\* draft_block left out a send that applies, because the sizes taken before
\* it fill the block.
C23_WitnessFull ==
    /\ ret.op = "draft_block"
    /\ ret.err = "Ok"
    /\ Len(ret.arg.mempool) = 2
    /\ Len(ret.val.block.body) = 2
    /\ SizeOf(ret.arg.mempool[1]) + SizeOf(ret.arg.mempool[2]) > MAX_DELTA_SIZE
    /\ ApplyTx(ApplyTx(RamKvStore(ret.pre), ret.arg.mempool[1].tx, FALSE).db,
               ret.arg.mempool[2].tx, FALSE).err = "Ok"

\* C24 (drafts wait for states): draft_block returns StatesOutdated exactly
\* when get_outdated_states() is not empty, and a block only when it is
\* empty; an extend that applies a transaction on a contract leaves the set
\* of outdated states non-empty, and no call but a successful update_states
\* empties it, so that every draft_block in between fails with
\* StatesOutdated.
C24_DraftsWaitForStates ==
    /\ ret.op = "draft_block" =>
         /\ ret.err = "StatesOutdated" <=> GetOutdatedStates(RamKvStore(ret.pre)) # EmptyMap
         /\ ret.err = "Ok" => GetOutdatedStates(RamKvStore(ret.pre)) = EmptyMap
    /\ (/\ ret.op = "extend"
        /\ ret.err = "Ok"
        /\ \E k \in 1..Len(ret.arg.blocks) :
             \E i \in 1..Len(ret.arg.blocks[k].body) :
               IsSome(ContractOf(ret.arg.blocks[k].body[i]))) =>
         GetOutdatedStates(RamKvStore(db)) # EmptyMap
    /\ (/\ ret.op # "idle"
        /\ GetOutdatedStates(RamKvStore(ret.pre)) # EmptyMap
        /\ ~(ret.op = "update_states" /\ ret.err = "Ok")) =>
         GetOutdatedStates(RamKvStore(db)) # EmptyMap

\* draft_block was refused with StatesOutdated on a chain whose last block
\* updated a contract.
C24_Witness ==
    /\ ret.op = "draft_block"
    /\ ret.err = "StatesOutdated"
    /\ GetHeight(RamKvStore(ret.pre)) >= 2
    /\ LET last == BlocksOf(ret.pre)[GetHeight(RamKvStore(ret.pre))]
       IN \E i \in 1..Len(last.body) : last.body[i].data.type = "Update"

\* The contracts a store knows: those with a contract account and those
\* listed as outdated.
ContractIds(d) ==
    {k[2] : k \in {k \in DOMAIN d.data : k[1] = ContractAccountKey(TargetContract)[1]}}
    \cup DOMAIN GetOutdatedStates(d)

\* C25 (outdated set): in every reachable state a contract is listed in
\* outdated_states exactly when its local full state does not compress to
\* the compressed state of its contract account, and the state listed for
\* it is that compressed state; so every listed contract exists.
C25_OutdatedSet ==
    LET d == RamKvStore(db)
        outdated == GetOutdatedStates(d)
    IN \A cid \in ContractIds(d) :
         LET account == GetContractAccount(d, cid)
         IN /\ IsOk(account)
            /\ cid \in DOMAIN outdated
                 <=> Compress(GetState(d, cid), StateModel) # account.val.compressed_state
            /\ cid \in DOMAIN outdated => outdated[cid] = account.val.compressed_state

\* The full state an entry of a patch stands for on the store d.
PatchedState(d, cid, entry) ==
    IF entry.kind = "Full" THEN entry.state ELSE PushDelta(GetState(d, cid), entry.delta)

\* The keys update_states may write: the contracts' full states and the
\* outdated set.
IsStateKey(k) == k[1] \in {ContractStateKey(TargetContract)[1], OutdatedKey[1]}

\* C26 (update_states, all or nothing): the call succeeds only if the patch
\* holds, for every outdated contract, an entry whose full state compresses
\* to the state recorded for it; a missing entry is FullStateNotFound, an
\* entry that does not fit is FullStateNotValid or DeltasInvalid.  On success
\* the full states are persisted and no contract is outdated; on failure
\* the store is as before; height, headers, blocks and accounts never change.
C26_UpdateStatesAllOrNothing ==
    ret.op = "update_states" =>
      LET pre == RamKvStore(ret.pre)
          now == RamKvStore(db)
          outdated == GetOutdatedStates(pre)
          patch == ret.arg
          missing == \E cid \in DOMAIN outdated : cid \notin DOMAIN patch
          fits(cid) == Compress(PatchedState(pre, cid, patch[cid]), StateModel) = outdated[cid]
      IN /\ ret.err = "Ok" =>
              /\ \A cid \in DOMAIN outdated :
                    /\ cid \in DOMAIN patch
                    /\ fits(cid)
                    /\ KvGet(now, ContractStateKey(cid))
                         = Some(PatchedState(pre, cid, patch[cid]))
              /\ GetOutdatedStates(now) = EmptyMap
         /\ missing => ret.err = "FullStateNotFound"
         /\ (~missing /\ \E cid \in DOMAIN outdated : ~fits(cid))
              => ret.err \in {"FullStateNotValid", "DeltasInvalid"}
         /\ ret.err = "DeltasInvalid" =>
              \E cid \in DOMAIN outdated : cid \in DOMAIN patch /\ patch[cid].kind = "Full"
         /\ ret.err # "Ok" => db = ret.pre
         /\ \A k \in DOMAIN ret.pre \cup DOMAIN db :
              ~IsStateKey(k) => KvGet(now, k) = KvGet(pre, k)

\* The contract transactions Alice may sign next on the store d: the
\* creation, an update and a deposit/withdraw of the target contract, each
\* with a proof that verifies.
ContractTxs(d) ==
    LET n == GetAccount(d, Alice).nonce + 1
        next == NextStateOf(d, TargetContract)
    IN {CreateTx,
        SignedTx(Alice, n, Update(TargetContract, 0, next, Groth16Proof(TRUE)), 0),
        SignedTx(Alice, n, DepositWithdraw(TargetContract, next, Groth16Proof(TRUE)), 0)}

\* The contract account as stored, or None.
StoredContractAccount(d, cid) == KvGet(d, ContractAccountKey(cid))

\* C27 (contract lifecycle): a successful CreateContract writes the contract
\* and its account with height 1 and the contract's initial state; a
\* successful Update or DepositWithdraw raises the account's height by one,
\* sets its compressed state to next_state and records that state under the
\* new height; rollback_block puts the contract account back to what it was
\* before the block, or removes it.
C27_ContractLifecycle ==
    /\ ret.op = "idle" =>
         \A tx \in ContractTxs(RamKvStore(db)) :
           LET d == RamKvStore(db)
               r == ApplyTx(d, tx, FALSE)
               cid == IF tx.data.type = "CreateContract" THEN ContractIdNew(tx)
                      ELSE tx.data.contract_id
               before == GetContractAccount(d, cid)
               after == GetContractAccount(r.db, cid)
           IN r.err = "Ok" =>
                IF tx.data.type = "CreateContract"
                THEN /\ GetContract(r.db, cid) = Ok(tx.data.contract)
                     /\ after = Ok(ContractAccount(1, tx.data.contract.initial_state, 0))
                ELSE /\ IsOk(before) /\ IsOk(after)
                     /\ after.val.height = before.val.height + 1
                     /\ after.val.compressed_state = tx.data.next_state
                     /\ KvGet(r.db, ContractCompressedStateKey(cid, after.val.height))
                          = Some(tx.data.next_state)
    /\ AppliedOneBlock =>
         \A overflow_checks \in Builds :
           LET r == RollbackBlock(RamKvStore(db), overflow_checks)
           IN /\ r.err = "Ok"
              /\ \A cid \in ContractIds(RamKvStore(db)) \cup ContractIds(RamKvStore(ret.pre)) :
                    StoredContractAccount(r.db, cid)
                      = StoredContractAccount(RamKvStore(ret.pre), cid)
    /\ (ret.op = "rollback_block" /\ ret.err = "Ok") =>
         \A cid \in ContractIds(RamKvStore(ret.pre)) :
           LET before == GetContractAccount(RamKvStore(ret.pre), cid)
               after == GetContractAccount(RamKvStore(db), cid)
           IN (IsOk(before) /\ IsOk(after)) => after.val.height <= before.val.height

\* An update went through on a contract of height 1, and the block that
\* carried it can be rolled back.
C27_Witness ==
    /\ AppliedOneBlock
    /\ \E i \in 1..Len(ret.arg.blocks[1].body) : ret.arg.blocks[1].body[i].data.type = "Update"
    /\ GetContractAccount(RamKvStore(ret.pre), TargetContract).val.height = 1
    /\ GetContractAccount(RamKvStore(db), TargetContract).val.height = 2

\* A block that created the contract was rolled back: the account is gone.
C27_WitnessRemoved ==
    /\ ret.op = "rollback_block" /\ ret.err = "Ok"
    /\ IsOk(GetContractAccount(RamKvStore(ret.pre), TargetContract))
    /\ ~IsOk(GetContractAccount(RamKvStore(db), TargetContract))

\* A contract nobody created.
OtherContract == ContractIdNew(SignedTx(Bob, 1, CreateContract(TheContract), 0))

\* The Update transactions Alice may sign on the store d: with her next
\* nonce or the one after, for the target contract or one that does not
\* exist, for the contract's function or an index past it, with a proof
\* that verifies or one that does not.
UpdateTxs(d) ==
    {SignedTx(Alice, GetAccount(d, Alice).nonce + skip,
              Update(cid, function_id, NextStateOf(d, cid), Groth16Proof(ok)), 0) :
       <<skip, cid, function_id, ok>> \in
          (1..2) \X {TargetContract, OtherContract} \X (0..1) \X BOOLEAN}

\* C28 (errors of an Update): a wrong nonce is InvalidTransactionNonce,
\* whatever the contract; then an unknown contract is ContractNotFound, a
\* function_id that is no index of contract.update is
\* ContractFunctionNotFound, a proof that does not verify is
\* IncorrectZkProof; a rejected Update leaves the contract account and the
\* source account, its nonce included, as they were.
C28_UpdateErrors ==
    /\ ret.op = "idle" =>
         \A tx \in UpdateTxs(RamKvStore(db)) :
           LET d == RamKvStore(db)
               r == ApplyTx(d, tx, FALSE)
               contract == GetContract(d, tx.data.contract_id)
               known == IsOk(contract)
               indexed == known /\ tx.data.function_id < Len(contract.val.update)
           IN /\ r.err =
                   IF tx.nonce # GetAccount(d, Alice).nonce + 1 THEN "InvalidTransactionNonce"
                   ELSE IF ~known THEN "ContractNotFound"
                   ELSE IF ~indexed THEN "ContractFunctionNotFound"
                   ELSE IF ~tx.data.proof.ok THEN "IncorrectZkProof"
                   ELSE "Ok"
              /\ r.err # "Ok" =>
                   /\ StoredContractAccount(r.db, tx.data.contract_id)
                        = StoredContractAccount(d, tx.data.contract_id)
                   /\ GetAccount(r.db, Alice) = GetAccount(d, Alice)
    /\ (/\ ret.op = "extend"
        /\ ret.err \in {"ContractNotFound", "ContractFunctionNotFound", "IncorrectZkProof"}) =>
         /\ StoredContractAccount(RamKvStore(db), TargetContract)
              = StoredContractAccount(RamKvStore(ret.pre), TargetContract)
         /\ GetAccount(RamKvStore(db), Alice) = GetAccount(RamKvStore(ret.pre), Alice)

\* A block was refused for an Update whose proof does not verify.
C28_Witness ==
    /\ ret.op = "extend"
    /\ ret.err = "IncorrectZkProof"
    /\ IsOk(GetContractAccount(RamKvStore(db), TargetContract))

\* A block was refused for an Update of a function the contract has not.
C28_WitnessFunction ==
    ret.op = "extend" /\ ret.err = "ContractFunctionNotFound"

\* A block was refused for an Update of a contract that does not exist.
C28_WitnessContract ==
    ret.op = "extend" /\ ret.err = "ContractNotFound"

\* C29 (state-patch round trip): when node B lists outdated contracts and
\* node A holds the same chain with none outdated, the patch A generates
\* for B's outdated states up to the tip is accepted by B's update_states
\* and leaves B with no outdated contract; generate_state_patch answers
\* StatesUnavailable when `to` is not the hash of its tip, and its patch
\* holds no contract that is outdated on the node that generates it.
C29_StatePatchRoundTrip ==
    /\ (/\ ret.op = "idle"
        /\ GetHeight(RamKvStore(db)) > 0
        /\ GetOutdatedStates(RamKvStore(db)) # EmptyMap) =>
         \A option \in PatchOptions, overflow_checks \in Builds :
           LET B == RamKvStore(db)
               A == UpdateStates(B, PatchOf(db, option), overflow_checks)
           IN A.err = "Ok" =>
                LET patch == GenerateStatePatch(A.db, GetOutdatedStates(B),
                                                HeaderHash(Tip(B)), overflow_checks)
                IN /\ patch.err = "Ok"
                   /\ LET updated == UpdateStates(B, patch.val, overflow_checks)
                      IN /\ updated.err = "Ok"
                         /\ GetOutdatedStates(updated.db) = EmptyMap
    /\ ret.op = "generate_state_patch" =>
         /\ (/\ GetHeight(RamKvStore(ret.pre)) > 0
             /\ ret.arg.to # HeaderHash(Tip(RamKvStore(ret.pre))))
              => ret.err = "StatesUnavailable"
         /\ ret.err = "Ok" =>
              \A cid \in DOMAIN ret.val :
                 cid \notin DOMAIN GetOutdatedStates(RamKvStore(ret.pre))

\* C30 (rollback_block and the height): on a chain of height 0 the call
\* returns NoBlocksToRollback and leaves the store as it was; on a chain of
\* height N > 0 it lowers the height to exactly N - 1.
C30_RollbackHeight ==
    ret.op = "rollback_block" =>
      IF GetHeight(RamKvStore(ret.pre)) = 0
      THEN ret.err = "NoBlocksToRollback" /\ db = ret.pre
      ELSE /\ ret.err = "Ok"
           /\ GetHeight(RamKvStore(db)) = GetHeight(RamKvStore(ret.pre)) - 1

\* A contract whose functions carry Plonk keys, the transaction by which
\* Alice deploys it on the store d, and her update of it right after.
PlonkContract ==
    ZkContract(Compress(InitialFullState, StateModel), StateModel, "Plonk", <<"Plonk">>)
PlonkCreateTx(d) ==
    SignedTx(Alice, GetAccount(d, Alice).nonce + 1, CreateContract(PlonkContract), 0)
PlonkUpdateTx(d) ==
    SignedTx(Alice, GetAccount(d, Alice).nonce + 2,
             Update(ContractIdNew(PlonkCreateTx(d)), 0,
                    NextStateOf(d, ContractIdNew(PlonkCreateTx(d))),
                    [kind |-> "Plonk", ok |-> TRUE]), 0)

\* C31 (no panic): on every reachable store, the empty one included, no
\* operation ends in a panic (an underflow of an unsigned subtraction, an
\* index out of range, an unimplemented branch), whatever its arguments and
\* whatever the verifier key of the contract a transaction calls; each
\* returns a value or a BlockchainError.
C31_NeverPanics ==
    /\ ret.op # "idle" => ret.err # "Panic"
    /\ ret.op = "idle" =>
         LET d == RamKvStore(db)
             created == ApplyTx(d, PlonkCreateTx(d), FALSE)
         IN created.err = "Ok" => ApplyTx(created.db, PlonkUpdateTx(d), FALSE).err # "Panic"

\* The objects stored under a key maker at the indices since..below-1.
StoredRange(d, Key(_), since, below) ==
    [j \in 1..(IF below > since THEN below - since ELSE 0) |->
       Unwrap(KvGet(d, Key(since + j - 1)))]

\* C32 (reads by index): get_header(i) and get_block(i) return
\* BlockNotFound for i >= height, the stored object for i < height, and
\* Inconsistency when the key of an i < height is missing; get_headers and
\* get_blocks return the objects at since..min(until or height, height)-1
\* in ascending order, none when since >= height.
C32_ReadsByIndex ==
    ret.op = "idle" =>
      LET d == RamKvStore(db)
          height == GetHeight(d)
      IN /\ \A i \in 0..(MaxHeight + 1) :
              /\ i >= height =>
                   /\ GetHeader(d, i) = Err("BlockNotFound")
                   /\ GetBlock(d, i) = Err("BlockNotFound")
              /\ i < height =>
                   /\ GetHeader(d, i) = Ok(db[HeaderKey(i)])
                   /\ GetBlock(d, i) = Ok(db[BlockKey(i)])
                   /\ GetHeader(KvUpdate(d, <<Remove(HeaderKey(i))>>), i) = Err("Inconsistency")
                   /\ GetBlock(KvUpdate(d, <<Remove(BlockKey(i))>>), i) = Err("Inconsistency")
         /\ \A since \in 0..(MaxHeight + 1) :
              \A until \in {None} \cup {Some(u) : u \in 0..(MaxHeight + 2)} :
                LET end == IF IsSome(until) THEN Unwrap(until) ELSE height
                    below == IF end < height THEN end ELSE height
                IN /\ GetHeaders(d, since, until) = Ok(StoredRange(d, HeaderKey, since, below))
                   /\ GetBlocks(d, since, until) = Ok(StoredRange(d, BlockKey, since, below))
                   /\ since >= height => GetHeaders(d, since, until) = Ok(<<>>)

\* A chain of three blocks, read from index 1 with a bound past the height:
\* two headers come back.
C32_Witness ==
    /\ ret.op = "idle"
    /\ GetHeight(RamKvStore(db)) = 3
    /\ Len(GetHeaders(RamKvStore(db), 1, Some(5)).val) = 2
    /\ Len(GetBlocks(RamKvStore(db), 0, None).val) = 3

\* The batches of at most three write ops over a key the store holds from
\* its first block on, a key it holds now and then, and a key it never
\* holds; keys may repeat.
ProbeOps ==
    LET one == {Put(k, v) : k \in {HeightKey, AccountKey(Bob), <<"absent">>}, v \in {0, 7}}
               \cup {Remove(k) : k \in {HeightKey, AccountKey(Bob), <<"absent">>}}
    IN {<<>>} \cup {<<a>> : a \in one} \cup {<<a, b>> : a, b \in one}
       \cup {<<a, b, a>> : a, b \in one}

\* C33 (rollback_of is the inverse batch): on every store and for every
\* batch of write ops, rollback_of lists, in the order of the batch,
\* Put(k, old) for a key the store holds and Remove(k) for one it does not,
\* leaves the store as it is, and the batch followed by its rollback gives
\* the store back.
C33_RollbackOfInverse ==
    ret.op = "idle" =>
      \A ops \in ProbeOps :
        LET d == RamKvStore(db)
            rollback == RollbackOf(d, ops)
        IN /\ Len(rollback) = Len(ops)
           /\ \A i \in 1..Len(ops) :
                 rollback[i] = IF ops[i].k \in DOMAIN db THEN Put(ops[i].k, db[ops[i].k])
                               ELSE Remove(ops[i].k)
           /\ KvUpdate(KvUpdate(d, ops), rollback) = d

\* A store that holds Bob's account and a batch that writes it twice and
\* touches an absent key: the rollback restores the account.
C33_Witness ==
    /\ ret.op = "idle"
    /\ AccountKey(Bob) \in DOMAIN db
    /\ LET ops == <<Put(AccountKey(Bob), 7), Put(<<"absent">>, 0), Put(AccountKey(Bob), 7)>>
       IN /\ ops \in ProbeOps
          /\ KvUpdate(RamKvStore(db), ops) # RamKvStore(db)
          /\ RollbackOf(RamKvStore(db), ops)[3] = Put(AccountKey(Bob), db[AccountKey(Bob)])

\* The last op of a batch that names the key k, if any.
LastWrite(ops, k) ==
    LET at == {i \in 1..Len(ops) : ops[i].k = k}
    IN IF at = {} THEN None
       ELSE Some(ops[CHOOSE i \in at : \A j \in at : j <= i])

\* C34 (overlay isolation): update calls on a RamMirrorKvStore leave its
\* base as it is; a get on the overlay returns the latest write of the
\* overlay for the key (nothing after a Remove) and else what the base
\* holds; the base with the overlay's to_ops applied returns for every key
\* what the overlay returned.
C34_OverlayIsolation ==
    ret.op = "idle" =>
      \A first \in ProbeOps, second \in {ops \in ProbeOps : Len(ops) <= 1} :
        LET base == RamKvStore(db)
            overlay == KvUpdate(KvUpdate(RamMirrorKvStore(base), first), second)
            committed == KvUpdate(base, ToOps(overlay))
        IN /\ overlay.store = base
           /\ \A k \in DOMAIN db \cup {<<"absent">>, AccountKey(Bob)} :
                LET last == LastWrite(first \o second, k)
                IN /\ KvGet(overlay, k) =
                        IF ~IsSome(last) THEN KvGet(base, k)
                        ELSE IF Unwrap(last).op = "Put" THEN Some(Unwrap(last).v)
                        ELSE None
                   /\ KvGet(committed, k) = KvGet(overlay, k)

\* An overlay that removes a key its base holds: the overlay no longer
\* returns it, the base does, and so does the base once the ops are applied.
C34_Witness ==
    /\ ret.op = "idle"
    /\ AccountKey(Bob) \in DOMAIN db
    /\ LET base == RamKvStore(db)
           overlay == KvUpdate(KvUpdate(RamMirrorKvStore(base), <<Put(AccountKey(Bob), 7)>>),
                               <<Remove(AccountKey(Bob))>>)
       IN /\ KvGet(overlay, AccountKey(Bob)) = None
          /\ KvGet(base, AccountKey(Bob)) # None
          /\ KvGet(KvUpdate(base, ToOps(overlay)), AccountKey(Bob)) = None

RECURSIVE OneByOne(_, _, _)
\* The calls extend(from, [b1]), extend(from + 1, [b2]), ... one after the
\* other on the store d; the first error ends them.
OneByOne(d, from, blocks) ==
    IF blocks = <<>> THEN [err |-> "Ok", db |-> d]
    ELSE LET r == Extend(d, from, <<Head(blocks)>>, TRUE)
         IN IF r.err # "Ok" THEN r ELSE OneByOne(r.db, from + 1, Tail(blocks))

\* C35 (extend applies the blocks in order): a successful extend(from,
\* [b1..bk]) leaves the height from + k, the blocks b1..bk at from..from+k-1
\* and the blocks below from as they were, and the store is the one that the
\* k calls extend(from, [b1]), ..., extend(from+k-1, [bk]) leave when
\* started on the chain cut back to the height from.
C35_ExtendInOrder ==
    (ret.op = "extend" /\ ret.err = "Ok") =>
      LET from == ret.arg.from
          blocks == ret.arg.blocks
          k == Len(blocks)
          cut == Extend(RamKvStore(ret.pre), from, <<>>, TRUE)
      IN /\ GetHeight(RamKvStore(ret.pre)) >= from
         /\ GetHeight(RamKvStore(db)) = from + k
         /\ \A j \in 1..k : GetBlock(RamKvStore(db), from + j - 1) = Ok(blocks[j])
         /\ \A i \in 0..(from - 1) :
               GetBlock(RamKvStore(db), i) = GetBlock(RamKvStore(ret.pre), i)
         /\ cut.err = "Ok"
         /\ GetHeight(cut.db) = from
         /\ OneByOne(cut.db, from, blocks) = [err |-> "Ok", db |-> RamKvStore(db)]

\* A fork of two blocks replaced the tip: extend went one block back and
\* applied both.
C35_Witness ==
    /\ ret.op = "extend" /\ ret.err = "Ok"
    /\ Len(ret.arg.blocks) = 2
    /\ ret.arg.from < GetHeight(RamKvStore(ret.pre))
    /\ ret.arg.blocks[1] # GetBlock(RamKvStore(ret.pre), ret.arg.from).val

\* A block on the tip of d that is right in its header and its reward and
\* carries the user transactions txs.
BlockWith(d, txs) ==
    LET b == MakeBlock(d, Choice("empty", MaxTimestamp, "none"))
        body == b.body \o txs
    IN [b EXCEPT !.body = body, !.header.block_root = MerkleRoot(MerkleTree(body))]

\* sends transfers of nothing from Alice, then (when size is not -1) her
\* Update of the target contract to a state of the size given.
SizedTxs(d, sends, size) ==
    LET n == GetAccount(d, Alice).nonce
        prev == GetContractAccount(d, TargetContract).val.compressed_state
    IN [i \in 1..sends |-> SignedTx(Alice, n + i, RegularSend(Bob, 0), 0)]
       \o (IF size = -1 THEN <<>>
           ELSE <<SignedTx(Alice, n + sends + 1,
                           Update(TargetContract, 0,
                                  [height |-> prev.height + 1,
                                   state_hash |-> <<"root", 1..size>>,
                                   state_size |-> size],
                                  Groth16Proof(TRUE)), 0)>>)

\* C36 (block size bound): apply_block accepts an otherwise valid block
\* exactly when body_bytes + state_size_delta <= MAX_DELTA_SIZE, the delta
\* being the signed sum of new size minus previous size over the block's
\* state changes; a block whose sum is negative is accepted, and
\* BlockTooBig is returned only when the sum is above MAX_DELTA_SIZE.
C36_BlockSizeBound ==
    (/\ ret.op = "idle"
     /\ GetHeight(RamKvStore(db)) > 0
     /\ IsOk(GetContractAccount(RamKvStore(db), TargetContract))) =>
      \A sends \in 0..(MAX_DELTA_SIZE + 1), size \in -1..(MAX_DELTA_SIZE + 2) :
        LET d == RamKvStore(db)
            prev == GetContractAccount(d, TargetContract).val.compressed_state
            txs == SizedTxs(d, sends, size)
            body_bytes == SumSeq([i \in 1..Len(txs) |-> TxSize(txs[i])])
            state_size_delta == IF size = -1 THEN 0 ELSE size - prev.state_size
            r == ApplyBlock(d, BlockWith(d, txs), TRUE)
        IN r.err = IF body_bytes + state_size_delta <= MAX_DELTA_SIZE THEN "Ok"
                   ELSE "BlockTooBig"

\* Alice's next count honest updates of the target contract on the store d,
\* each announcing the state that follows the one before it.
RECURSIVE HonestUpdates(_, _)
HonestUpdates(d, count) ==
    IF count = 0 THEN <<>>
    ELSE LET tx == UserTxs(d, "update")[1]
         IN <<tx>> \o HonestUpdates(ApplyTx(d, tx, FALSE).db, count - 1)

\* The owner's full state after count more updates of the full state given.
RECURSIVE OwnerStateAfter(_, _)
OwnerStateAfter(state, count) ==
    IF count = 0 THEN state
    ELSE OwnerStateAfter(PushDelta(state, NextDelta(state.data)), count - 1)

\* C37 (rollback of contract state): the contract_updates of a block hold,
\* for a contract the block changed, the compressed state the contract had
\* right before the block; and once the block is rolled back, every contract
\* that outdated_states does not list has a stored full state that
\* compresses to the compressed_state of its contract account.  Both hold
\* for a block with one update of the contract and for a block with two.
C37_RollbackContractState ==
    (/\ ret.op = "idle"
     /\ GetHeight(RamKvStore(db)) > 0
     /\ IsOk(GetContractAccount(RamKvStore(db), TargetContract))
     /\ TargetContract \notin DOMAIN GetOutdatedStates(RamKvStore(db))) =>
      \A count \in 1..2 :
        LET d == RamKvStore(db)
            cid == TargetContract
            before == GetContractAccount(d, cid).val.compressed_state
            applied == ApplyBlock(d, BlockWith(d, HonestUpdates(d, count)), TRUE)
            patch == [c \in {cid} |-> FullPatch(OwnerStateAfter(GetState(d, cid), count))]
            updated == UpdateStates(applied.db, patch, FALSE)
            rolled == RollbackBlock(updated.db, FALSE)
        IN applied.err = "Ok" =>
             /\ GetChangedStates(applied.db, GetHeight(d)).val[cid].prev_state = before
             /\ (updated.err = "Ok" /\ rolled.err = "Ok") =>
                  \A c \in ContractIds(rolled.db) \ DOMAIN GetOutdatedStates(rolled.db) :
                    Compress(GetState(rolled.db, c), StateModel)
                      = GetContractAccount(rolled.db, c).val.compressed_state

\* The errors of the header checks of apply_block and will_extend.
HeaderErrors ==
    {"InvalidTimestamp", "DifficultyTargetWrong", "DifficultyTargetUnmet",
     "InvalidBlockNumber", "InvalidParentHash"}

\* C38 (will_extend and extend agree): on every chain, for every fork point
\* from and every list of candidate blocks with valid bodies, if
\* will_extend(from, headers, true) returns Ok(true) then extend(from,
\* blocks) fails none of the header checks (timestamp against the median,
\* target, proof of work, number, parent hash), and if extend succeeds then
\* will_extend on the same headers returns no error.
C38_WillExtendAgrees ==
    ret.op = "idle" =>
      \A from \in 1..GetHeight(RamKvStore(db)) :
        \A cs \in ChoiceLists(GetHeight(RamKvStore(db)), from, HeaderChoices, HeaderChoices) :
          LET d == RamKvStore(db)
              blocks == Candidates(db, from, cs)
              headers == [i \in 1..Len(blocks) |-> blocks[i].header]
              will == WillExtend(d, from, headers, TRUE)
              extended == Extend(d, from, blocks, FALSE)
          IN /\ (IsOk(will) /\ will.val) => extended.err \notin HeaderErrors
             /\ extended.err = "Ok" => IsOk(will)

\* C39 (sync_blocks against other writers): a finished run of sync_blocks
\* that extended the chain did not lower its cumulative power, and its
\* extend acted on the chain state will_extend was asked about and on
\* blocks whose headers are those will_extend approved; a run whose peer
\* claimed no more power than the local chain did nothing; a run whose
\* will_extend returned false or an error left the chain as it was and
\* punished the peer.
C39_SyncKeepsPower ==
    (ret.op = "sync_blocks" /\ ret.pc = "done") =>
      /\ ret.extended =>
           /\ GetPower(RamKvStore(db)).val >= GetPower(RamKvStore(ret.pre)).val
           /\ ret.pre = ret.approved
           /\ [i \in 1..Len(ret.blocks) |-> ret.blocks[i].header] = ret.headers
      /\ (IsSome(ret.peer.info) /\ Unwrap(ret.peer.info).power <= ret.power) =>
           ~ret.extended /\ ~ret.punished /\ ret.headers = <<>>
      /\ ret.will = "false" => ~ret.extended /\ ret.punished /\ db = ret.pre

\* C40 (cache coherence): after every sequence of get and update calls on
\* an LruCacheKvStore of any capacity, the answer of get(k) is the answer
\* of the wrapped store's get(k) at that moment, and so would be the answer
\* of a get of any other key: every cached answer, a cached None included,
\* is the store's.
C40_CacheCoherence ==
    /\ ret.op = "lru_get" => ret.val = KvGet(db.store, ret.arg)
    /\ \A k \in LruKeys : LruGet(db, k).val = KvGet(db.store, k)
    /\ Len(db.cache) <= db.cap

\* An update has just written a key that a full cache of capacity two held
\* as None (read while absent) next to a cached value, and a get of that
\* key now answers with the written value.
C40_Witness ==
    /\ ret.op = "lru_update"
    /\ ret.pre.cap = MaxCap
    /\ Len(ret.pre.cache) = ret.pre.cap
    /\ \E i, j \in 1..Len(ret.pre.cache) :
         /\ ret.pre.cache[i].v = None
         /\ ret.pre.cache[j].v # None
         /\ KvGet(db.store, ret.pre.cache[i].k) # None
         /\ LruGet(db, ret.pre.cache[i].k).val = KvGet(db.store, ret.pre.cache[i].k)

====
